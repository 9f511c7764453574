------------------------------ MODULE FlashSteps ------------------------------
(***************************************************************************)
(* The state of a session of flash.sh with a device in recovery mode, and  *)
(* what the methods of tegraflash.py's chips are written with.             *)
(*                                                                         *)
(* A method of tegraflash_internal.py or tegraflash_impl_t234.py calls     *)
(* tools and other methods one after the other.  It is written as the      *)
(* sequence of its steps; todo holds those still to be taken.  A step is a *)
(* tuple: its name, then what it works on.                                 *)
(*                                                                         *)
(* A file is known by its name, with the suffixes that tools add:          *)
(* <<"mb2", "with_mb2_bct", "signed">>.  What counts of its contents is    *)
(* which pieces it was made of, in order, and over what its signature and  *)
(* its SHA were computed.                                                  *)
(***************************************************************************)
EXTENDS Integers, Sequences

CONSTANTS
    Sources,       \* images that flash.sh puts into the working directory
    Options,       \* option records to explore
    Sessions,      \* Sessions[opt.use]: the invocations of a session
    Ramcodes,      \* RAM straps that boards have
    MaxPolls,      \* rounds of a polling loop: 30 in the code
    MaxWords,      \* bound: words after a command's name
    MaxSwaps       \* bound: MaxSwaps[opt.use] is how often there is another session

VARIABLES
    opt,           \* the options of all invocations
    jobs,          \* invocations of tegraflash.py still to be started
    cmds, now,     \* commands of this one still to be run; the one that runs
    todo,          \* steps of this command still to be taken
    status,        \* "idle", "running", "done" or "failed"
    disk,          \* files, by name
    val,           \* values[...], set anew by every command
    kept,          \* tegrabct_values[...] and the like, kept by an invocation
    layout, pt,    \* file of each partition type: flash.xml.tmp; its .bin
    list,          \* file of each type in images_list(_signed).xml
    ramfile,       \* ramcode in chip_info.bin_bak, or NoRam
    dev,           \* the device
    part,          \* contents of its partitions
    swaps          \* sessions so far, but the first

None == <<"None">>
NoRam == "none"
Absent == [is |-> <<>>, mb1 |-> <<>>, sig |-> <<>>, sha |-> <<>>]
Types == {"mb1", "psc", "mb2", "dce", "kernel_dtb", "bpmp_dtb"}

\* What a step refers to: a file by name, or through a table when it is taken.
F(f) == <<"file", f>>
K(k) == <<"kept", k>>
L(t) == <<"layout", t>>
P(t) == <<"pt", t>>
S(t) == <<"list", t>>
Name(r) == CASE r[1] = "file" -> r[2]
             [] r[1] = "kept" -> kept[r[2]]
             [] r[1] = "layout" -> layout[r[2]]
             [] r[1] = "pt" -> pt[r[2]]
             [] r[1] = "list" -> list[r[2]]
Exists(f) == f \in DOMAIN disk
Contents(r) == IF Exists(Name(r)) THEN disk[Name(r)] ELSE Absent
Pieces(x, c) == {i \in DOMAIN c.is : c.is[i] = x}

\* flash.sh asks a new board for its EEPROM, with a layout and arguments of their
\* own: no images to combine, no bootloader, no memory table.
asks == now[1] \in {"dump", "readfuses"}

When(c, steps) == IF c THEN steps ELSE <<>>
\* s without its elements in xs.
Removing(s, xs) ==
    LET rest[i \in 0..Len(s)] ==
            IF i = 0 THEN <<>> ELSE IF s[i] \in xs THEN rest[i-1] ELSE Append(rest[i-1], s[i])
    IN rest[Len(s)]
Without(f, suffix) == Removing(f, {suffix})
Call(m) == <<"call", m, <<>>>>
CallWith(m, a) == <<"call", m, a>>
Calls(ms) == [i \in DOMAIN ms |-> Call(ms[i])]
RunTool == <<<<"tool">>>>
=============================================================================
