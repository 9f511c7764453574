------------------------------ MODULE BpmpTrim ------------------------------
(***************************************************************************)
(* Trimming the BPMP's device tree (--trim_bpmp_dtb): of its tables of the *)
(* external memory only the one of the board's RAM strap is kept.  The     *)
(* tree is turned into text by dtc, edited line by line, and turned into a *)
(* tree again, in place.  tegraflash_internal.py (T194) and                *)
(* tegraflash_impl_t234.py have a copy each of the functions that do it.   *)
(*                                                                         *)
(* A tree is the sequence of its lines: what a line is, and the handles    *)
(* between its < and >.  Text has a blank line before each child besides.  *)
(***************************************************************************)
EXTENDS Integers, Sequences, SequencesExt

CONSTANTS
    Chips,         \* "0x19", "0x23"
    Trees,         \* device trees that flash.sh may put there
    Ramcodes,      \* RAM straps
    Begins,      \* <<h, k>>: the text of handle h begins that of handle k
    MaxCalls       \* bound: calls of tegraflash_bpmp_generate_dtb()

VARIABLES
    chip,
    dtb, dts,      \* the tree's file or Broken, and test.dts or NoText
    trimmed,       \* bpmp_fw_dtb_trimmed of this process (T194)
    ram, w,        \* ramcode, and the local variables of the call
    pc, ended,     \* the function to be called next; how the last call ended
    before,        \* history: the tree when the last call began
    calls

files == <<dtb, dts>>
call == <<chip, ram, before, calls>>
vars == <<files, trimmed, call, w, pc, ended>>

NoText == <<>>
Broken == <<>>   \* what a dtc that failed while it wrote has left: no tree
Zero == "0x0"
Mangled == "0x0..."
Line(kind, ids) == [kind |-> kind, ids |-> ids]
Blank == Line("blank", <<>>)
Opens == {"root", "strap", "table", "node"}
\* A handle's text, a replaced one's included.
Texts == STRING \cup {Zero, Mangled}
Lines == [kind : Opens \cup {"close", "select", "phandle", "prop", "blank"}, ids : Seq(Texts)]
Nothing == [lines |-> NoText, straps |-> <<>>, at |-> 0, begins |-> <<>>, ends |-> <<>>, valid |-> <<>>]

-----------------------------------------------------------------------------
(* What dtc does: external.                                                *)

\* The lines of t at the places in K, in their order.
Picked(t, K) == FlattenSeq([i \in DOMAIN t |-> IF i \in K THEN <<t[i]>> ELSE <<>>])

Decompiled(d) ==
    FlattenSeq([i \in DOMAIN d |-> IF i > 1 /\ d[i].kind \in Opens THEN <<Blank, d[i]>> ELSE <<d[i]>>])
Change(l) == IF l.kind \in Opens THEN 1 ELSE IF l.kind = "close" THEN -1 ELSE 0
\* How many nodes are open after line i.
Depth(t, i) == LET deep[k \in 0..Len(t)] == IF k = 0 THEN 0 ELSE deep[k-1] + Change(t[k])
               IN deep[i]
\* One root that everything is in; properties precede nodes.
WellFormed(d) ==
    /\ d # NoText /\ d[1].kind = "root"
    /\ \A i \in DOMAIN d : IF i = Len(d) THEN Depth(d, i) = 0 ELSE Depth(d, i) > 0
    /\ \A i \in 1 .. Len(d) - 1 : d[i].kind = "close" => d[i + 1].kind \in Opens \cup {"close"}
NoBlanks(t) == Picked(t, {i \in DOMAIN t : t[i].kind # "blank"})
Parses(t) == WellFormed(NoBlanks(t))

\* A tree is what dtc made; a handle is a number that begins with 0x, so none
\* begins "0x0".
ASSUME TreesAssumption == \A d \in Trees : d \in Seq(Lines) /\ WellFormed(d) /\ \A i \in DOMAIN d : d[i].kind # "blank"
ASSUME RamcodesAssumption == Ramcodes \subseteq Nat
ASSUME BeginsAssumption == \A b \in Begins : b[2] # Zero

-----------------------------------------------------------------------------
(* How a call ends.                                                        *)

Ends(how) == pc' = "idle" /\ ended' = how /\ w' = Nothing /\ UNCHANGED call
\* An exception that no handler of tegraflash.py catches ends the process.
Raises == Ends("raised") /\ trimmed' = FALSE
\* "Using existing bpmp_dtb".
Existing == Ends("existing") /\ UNCHANGED trimmed
GoesOn(f, locals) == pc' = f /\ w' = locals /\ UNCHANGED <<files, trimmed, call, ended>>

\* Called in this process again or in another one; the RAM strap is looked for
\* once in a process.  dtc fails, or says nothing and writes nothing.
GenerateDtb(r, fresh) ==
    /\ pc = "idle" /\ calls < MaxCalls
    /\ fresh \/ (calls > 0 /\ ended # "raised" /\ r = ram)
    /\ ram' = r /\ before' = dtb /\ calls' = calls + 1 /\ w' = Nothing
    /\ trimmed' = (trimmed /\ ~fresh)
    /\ pc' = IF trimmed' THEN "idle" ELSE "generate_int_dtsi"
    /\ ended' = IF trimmed' THEN "skipped" ELSE "running"
    /\ UNCHANGED <<chip, files>>
GenerateIntDtsi ==
    /\ pc = "generate_int_dtsi"
    /\ \/ /\ dtb # Broken /\ dts' = Decompiled(dtb) /\ pc' = "get_strap_handles" /\ w' = [Nothing EXCEPT !.lines = dts']
          /\ UNCHANGED <<dtb, trimmed, call, ended>>
       \/ dts' = NoText /\ Raises /\ UNCHANGED dtb
       \/ dts' = NoText /\ Existing /\ UNCHANGED dtb

\* The handles in the line after "emc-strap {".  Without that node one -1 is
\* returned where the caller takes three values.
Straps == SelectInSeq(w.lines, LAMBDA l : l.kind = "strap")
GetStrapHandles ==
    /\ pc = "get_strap_handles"
    /\ \/ /\ Straps # 0 /\ w.lines[Straps + 1].ids # <<>>
          /\ GoesOn("save_table_pos", [w EXCEPT !.at = Straps + 1, !.straps = w.lines[Straps + 1].ids])
       \/ Straps # 0 /\ w.lines[Straps + 1].ids = <<>> /\ Raises /\ UNCHANGED files
       \/ Straps = 0 /\ dts' = NoText /\ Raises /\ UNCHANGED dtb

\* count is how many nodes are open besides the root; a table ends where it is 0
\* again.  The end is the line after the table's last.
Counted(p, i, line) ==
    LET n == p.count + Change(line)
        odd == (Len(p.begins) + Len(p.ends)) % 2 = 1
    IN [count |-> n,
        begins |-> IF line.kind = "table" THEN Append(p.begins, i) ELSE p.begins,
        ends |-> IF line.kind # "table" /\ n = 0 /\ odd THEN Append(p.ends, i + 1) ELSE p.ends]
Positions(lines) ==
    LET p[i \in 0..Len(lines)] ==
            IF i = 0 THEN [count |-> -1, begins |-> <<>>, ends |-> <<>>] ELSE Counted(p[i-1], i, lines[i])
    IN p[Len(lines)]
\* A mismatch is reported as -1, which the caller compares with "-1" and then
\* takes the length of.
Matched(p) == p.begins # <<>> /\ Len(p.ends) = Len(p.begins)
SaveTablePos ==
    /\ pc = "save_table_pos"
    /\ LET p == Positions(w.lines) IN
         \/ /\ Matched(p)
            /\ GoesOn("update_valid_entries", [w EXCEPT !.begins = p.begins, !.ends = p.ends])
         \/ ~Matched(p) /\ Raises /\ UNCHANGED files

\* One entry for each line with a phandle, whatever node it is of.
\* Mutant: the tables of all straps listed are valid.
Phandles(i) == Picked(w.lines, {n \in w.begins[i] .. w.ends[i] - 1 : w.lines[n].kind = "phandle"})
AllPhandles == FlattenSeq([i \in DOMAIN w.begins |-> Phandles(i)])
HasStrap == ram < Len(w.straps)
Chosen == w.straps[ram + 1]
ValidIfListed == [i \in DOMAIN AllPhandles |-> AllPhandles[i].ids[1] \in Range(w.straps)]
ValidEntries == [i \in DOMAIN AllPhandles |-> AllPhandles[i].ids[1] = Chosen]
UpdateValidEntries ==
    /\ pc = "update_valid_entries"
    /\ \/ /\ HasStrap \/ AllPhandles = <<>>
          /\ GoesOn("remove_unused_phandles", [w EXCEPT !.valid = IF HasStrap THEN ValidEntries ELSE <<>>])
       \/ ~HasStrap /\ AllPhandles # <<>> /\ Raises /\ UNCHANGED files

\* re.sub(h, '0x0', line), for each handle but the chosen one.
Substituted(h, id) ==
    IF id = h THEN Zero ELSE IF <<h, id>> \in Begins THEN Mangled ELSE id
OnlyChosen(ids) ==
    LET now[k \in 0..Len(w.straps)] ==
            IF k = 0 THEN ids
            ELSE IF w.straps[k] = Chosen THEN now[k-1]
            ELSE [i \in DOMAIN ids |-> Substituted(w.straps[k], now[k-1][i])]
    IN now[Len(w.straps)]
\* A line from the first of a table to the end, inclusive, is left out.  A table
\* without an entry stops the writing there; the IndexError is taken for a failure
\* to open the file, and the file is used.
InTable(n, i) == n >= w.begins[i] /\ n <= w.ends[i]
HasEntry(i) == i <= Len(w.valid)
Stops(n) == \E i \in DOMAIN w.begins :
    /\ InTable(n, i) /\ ~HasEntry(i)
    /\ \A j \in 1..i - 1 : InTable(n, j) => w.valid[j]
LeftOut(n) == \E i \in DOMAIN w.begins : InTable(n, i) /\ HasEntry(i) /\ ~w.valid[i]
Written(lines) ==
    Picked(lines, {n \in DOMAIN lines : ~LeftOut(n) /\ \A m \in 1..n : ~Stops(m)})
RemoveUnusedPhandles ==
    /\ pc = "remove_unused_phandles"
    /\ \/ /\ HasStrap
          /\ LET new == [w.lines EXCEPT ![w.at].ids = OnlyChosen(@)] IN
               dts' = Written(new) /\ w' = [w EXCEPT !.lines = new]
          /\ pc' = "dtsi_to_dtb" /\ UNCHANGED <<dtb, trimmed, call, ended>>
       \/ ~HasStrap /\ Raises /\ UNCHANGED files

\* A dtc that ends well is believed, though it may have written nothing.  When it
\* fails, "existing" may be what it has left, and test.dts stays until the next call.
DtsiToDtb ==
    /\ pc = "dtsi_to_dtb"
    /\ \/ /\ dts' = NoText /\ trimmed' = (chip = "0x19")
          /\ \/ Parses(dts) /\ dtb' = NoBlanks(dts) /\ Ends("trimmed")
             \/ UNCHANGED dtb /\ Ends("unwritten")
       \/ dtb' \in {dtb, Broken} /\ Existing /\ UNCHANGED dts

Init ==
    /\ chip \in Chips /\ dtb \in Trees /\ dts = NoText /\ trimmed = FALSE
    /\ ram \in Ramcodes /\ w = Nothing /\ pc = "idle" /\ ended = "none"
    /\ before = dtb /\ calls = 0

Next ==
    \/ \E r \in Ramcodes, fresh \in BOOLEAN : GenerateDtb(r, fresh)
    \/ GenerateIntDtsi \/ GetStrapHandles \/ SaveTablePos \/ UpdateValidEntries
    \/ RemoveUnusedPhandles \/ DtsiToDtb
Spec == Init /\ [][Next]_vars

-----------------------------------------------------------------------------
(* The tree without the tables of the other straps, in terms of its nodes. *)

LastOf(d, i) == CHOOSE j \in i..Len(d) : /\ Depth(d, j) = Depth(d, i) - 1
                                         /\ \A k \in i..j - 1 : Depth(d, k) >= Depth(d, i)
Tables(d) == {i \in DOMAIN d : d[i].kind = "table"}
HandlesIn(d, i) == {j \in i..LastOf(d, i) : d[j].kind = "phandle"}
StrapsOf(d) == d[SelectInSeq(d, LAMBDA l : l.kind = "strap") + 1].ids
\* What the functions take for granted of a tree: tables are children of the root
\* with a handle of their own and no other, there is one node of straps with one
\* list of them, which comes first, and no handle's text begins another's.
Plain(d, r) ==
    /\ \A i \in Tables(d) : Depth(d, i) = 2 /\ \E h \in DOMAIN d : HandlesIn(d, i) = {h}
    /\ \E i \in DOMAIN d :
          /\ i + 1 \in DOMAIN d
          /\ \A j \in DOMAIN d : (d[j].kind = "strap" <=> j = i) /\ (d[j].kind = "select" <=> j = i + 1)
    /\ r < Len(StrapsOf(d))
    /\ \A h, k \in Range(StrapsOf(d)) : <<h, k>> \notin Begins
Reference(d, r) ==
    LET chosen == StrapsOf(d)[r + 1]
        out == {i \in Tables(d) : \A j \in HandlesIn(d, i) : d[j].ids[1] # chosen}
        line(n) == IF d[n].kind = "select"
                   THEN [d[n] EXCEPT !.ids = [i \in DOMAIN @ |-> IF @[i] = chosen THEN chosen ELSE Zero]]
                   ELSE d[n]
    IN Picked([n \in DOMAIN d |-> line(n)], {n \in DOMAIN d : \A i \in out : n < i \/ n > LastOf(d, i)})

\* A call that trims leaves the tree with exactly the table of this RAM strap, and
\* all else as it was, though it counts braces, matches handles to tables by their
\* order and cuts a line more than the table has; a call that does not, for
\* whatever reason, leaves the tree alone (generate_dtb(), "Using existing
\* bpmp_dtb"), unless dtc has broken the file: it is never another tree.
TrimIsExact ==
    pc = "idle" =>
        IF ended = "trimmed" THEN Plain(before, ram) => dtb = Reference(before, ram) ELSE dtb \in {before, Broken}
=============================================================================
