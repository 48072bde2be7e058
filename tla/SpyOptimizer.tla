---------------------------- MODULE SpyOptimizer ----------------------------
(* src/CP/hw4/code/optimizer.ml, for the instructions of Spvm: one pass,    *)
(* front to back, that propagates copies and constants into what follows    *)
(* and drops the instruction when that leaves no use of what it defines.    *)
EXTENDS Spvm

\* find_id_usage: where id is mentioned; it does not look into the bodies of
\* functions.
FindIdUsage(pgm, id) ==
    {k \in DOMAIN pgm : pgm[k].x = id \/ \E n \in DOMAIN pgm[k].ys : pgm[k].ys[n] = id}

\* get_pgm_until_l: target up to and with label l, or all of it.
UntilLabel(target, l) ==
    IF Holds(target, l) THEN SubSeq(target, 1, PlaceOf(target, l)) ELSE target

\* id2id_o: id becomes id_o where it is read, once in each instruction and
\* never in COPY, CJUMP, CJUMPF or CALL.
ReplaceFirst(ys, id, id_o) ==
    [n \in DOMAIN ys |->
       IF ys[n] = id /\ \A k \in 1 .. n - 1 : ys[k] # id THEN id_o ELSE ys[n]]
Id2Id(pgm, id, id_o) ==
    [k \in DOMAIN pgm |->
       IF pgm[k].op \in {"RETURN", "WRITE", "ASSIGNV", "ASSIGNC"}
       THEN [pgm[k] EXCEPT !.ys = ReplaceFirst(@, id, id_o)]
       ELSE pgm[k]]

\* id2int, of n or of a string s that is copied.
Id2Int(pgm, id, n) ==
    [k \in DOMAIN pgm |->
       CASE pgm[k].op = "COPY" /\ pgm[k].ys[1] = id ->
              COPYC(pgm[k].l, pgm[k].x, n)
         [] pgm[k].op = "ASSIGNV" /\ pgm[k].ys[2] = id ->
              ASSIGNC(pgm[k].l, pgm[k].x, pgm[k].bop, pgm[k].ys[1], n)
         [] OTHER -> pgm[k]]

Id2Str(pgm, id, s) ==
    [k \in DOMAIN pgm |->
       IF pgm[k].op = "COPY" /\ pgm[k].ys[1] = id
       THEN COPYS(pgm[k].l, pgm[k].x, s) ELSE pgm[k]]

\* The instruction at k defines a string that is only written, once.
OnlyWritten(pgm, k) ==
    \E j \in DOMAIN pgm :
      /\ pgm[j].op = "WRITE"
      /\ {n \in FindIdUsage(pgm, pgm[k].x) : n > k} = {j}

\* replace_same_str: what only writes a later copy of s writes id instead.
ReplaceSameStr(pgm, id, s) ==
    LET same(k) == pgm[k].op = "COPYS" /\ pgm[k].c = s /\ OnlyWritten(pgm, k)
    IN  [j \in DOMAIN pgm |->
           IF /\ pgm[j].op = "WRITE"
              /\ \E k \in 1 .. j - 1 : same(k) /\ pgm[j].ys[1] = pgm[k].x
           THEN WRITE(pgm[j].l, id) ELSE pgm[j]]

\* The cases of optimize_pgm: the instruction when it is kept, with the
\* program that is left to optimize.
Kept(inst, rest) == [kept |-> <<inst>>, rest |-> rest]
Dropped(rest) == [kept |-> <<>>, rest |-> rest]
CopyCase(target, inst, rest) ==
    LET new == Id2Id(rest, inst.x, inst.ys[1])
        check == UntilLabel(target, inst.l) \o new
    IN  IF \E k \in DOMAIN check : FindIdUsage(check, inst.x) = {k} /\ check[k] = inst
        THEN Dropped(new) ELSE Kept(inst, rest)
\* Defect: a constant is carried past the next definition of id.
X_Overtakes(inst, rest) == Dropped(Id2Int(rest, inst.x, inst.c))
CopyConstantCase(inst, rest) ==
    LET new == Id2Int(rest, inst.x, inst.c)
    IN  IF FindIdUsage(new, inst.x) = {}
        THEN Dropped(new) ELSE Kept(inst, rest)
CopyStringCase(inst, rest) ==
    LET same == ReplaceSameStr(rest, inst.x, inst.c)
        new == Id2Str(same, inst.x, inst.c)
    IN  IF FindIdUsage(new, inst.x) = {}
        THEN Dropped(new) ELSE Kept(inst, same)
CopyNoneCase(inst, rest) ==
    IF FindIdUsage(rest, inst.x) = {} THEN Dropped(rest) ELSE Kept(inst, rest)

OptimizeInstr(target, inst, rest) ==
    CASE inst.op = "COPY" -> CopyCase(target, inst, rest)
      [] inst.op = "COPYC" -> CopyConstantCase(inst, rest)
      [] inst.op = "COPYS" -> CopyStringCase(inst, rest)
      [] inst.op = "COPYN" -> CopyNoneCase(inst, rest)
      [] OTHER -> Kept(inst, rest)

\* The calls of optimize_pgm, the innermost first: what each has made so far
\* and what is left of its list.  A call for the body of a function returns
\* into the FUNC_DEF at the head of its caller's list.
Entered(pgm) == [kept |-> <<>>, rest |-> pgm]
OptimizePgm(target, calls) ==
    LET me == Head(calls)
        inst == Head(me.rest)
        rest == Tail(me.rest)
        done == OptimizeInstr(target, inst, rest)
        caller == calls[2]
        def == [Head(caller.rest) EXCEPT !.body = me.kept]
    IN  CASE me.rest = <<>> ->
               <<[kept |-> Append(caller.kept, def), rest |-> Tail(caller.rest)]>>
               \o SubSeq(calls, 3, Len(calls))
          [] me.rest # <<>> /\ inst.op = "FUNC_DEF" -> <<Entered(inst.body)>> \o calls
          [] OTHER ->
               <<[kept |-> me.kept \o done.kept, rest |-> done.rest]>> \o Tail(calls)

Finished(calls) == Len(calls) = 1 /\ calls[1].rest = <<>>
=============================================================================
