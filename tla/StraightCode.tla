---------------------------- MODULE StraightCode ----------------------------
(* The code that the translator of src/CP/hw4/code makes of assignments,    *)
(* prints and calls one after the other, and what is left of its form while *)
(* the optimizer is at work on it.                                          *)
EXTENDS Spvm

Users == [user : STRING]
Temps == [temp : Seq(Int)]
Ids == Users \cup Temps
Constants == [num : Int] \cup [str : STRING] \cup {NONE}

\* How many operands an instruction reads, other than CALL.
Operands(op) ==
    CASE op \in {"HALT", "COPYC", "COPYS", "COPYN"} -> 0
      [] op \in {"COPY", "ASSIGNC", "WRITE"} -> 1
      [] OTHER -> 2
Defining == {"COPY", "COPYC", "COPYS", "COPYN", "ASSIGNV", "ASSIGNC", "CALL"}
Reading == {"WRITE", "ASSIGNV", "ASSIGNC"}

StraightInstrs ==
    [l : Seq(Int), op : Defining \cup {"WRITE", "HALT"}, x : Ids \cup {NoId},
     ys : Seq(Ids), bop : {"none", "ADD", "SUB", "LT", "EQ"}, c : Constants,
     to : {<<>>}, body : {<<>>}]

\* Operands in number and kind; a COPY goes from a user's name to a temporary
\* or back.
WellFormed(inst) ==
    /\ IF inst.op = "CALL" THEN inst.ys # <<>>
       ELSE Len(inst.ys) = Operands(inst.op)
    /\ inst.x \in Ids <=> inst.op \in Defining
    /\ inst.op \in {"ASSIGNV", "ASSIGNC"} => inst.bop # "none"
    /\ inst.op = "COPY" => (inst.x \in Users <=> inst.ys[1] \in Temps)
    /\ inst.x \in Users => inst.op \in {"COPY", "COPYC", "COPYS"}

Reads(inst, id) ==
    inst.op \in Reading /\ \E n \in DOMAIN inst.ys : inst.ys[n] = id

\* One instruction per label, HALT at the end; a temporary is defined once,
\* and where it is assigned to a user's name, just before.
Form(pgm) ==
    /\ pgm \in Seq(StraightInstrs)
    /\ pgm # <<>>
    /\ \A k \in DOMAIN pgm : WellFormed(pgm[k])
    /\ \A k \in DOMAIN pgm : pgm[k].op = "HALT" <=> k = Len(pgm)
    /\ \A j, k \in DOMAIN pgm : pgm[j].l = pgm[k].l => j = k
    /\ \A j, k \in DOMAIN pgm : pgm[j].x = pgm[k].x /\ pgm[j].x \in Temps => j = k
    /\ \A j, k \in DOMAIN pgm :
         pgm[k].op = "COPY" /\ pgm[k].x \in Users /\ pgm[j].x = pgm[k].ys[1] =>
           j = k - 1

\* From place p on: what the value of a user's name is copied for is read
\* before the name gets another value.
ReadInTime(pgm, p) ==
    \A i, j \in DOMAIN pgm :
      /\ p <= i /\ i < j
      /\ pgm[i].op = "COPY" /\ pgm[i].x \in Temps
      /\ Reads(pgm[j], pgm[i].x)
      => \A k \in i .. j - 1 : pgm[k].x # pgm[i].ys[1]

StraightLineCode(pgm) ==
    /\ Form(pgm)
    /\ \A k \in DOMAIN pgm : pgm[k].x \in Users => pgm[k].op = "COPY"
    /\ ReadInTime(pgm, 1)
=============================================================================
