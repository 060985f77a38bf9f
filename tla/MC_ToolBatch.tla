---------------------------- MODULE MC_ToolBatch ----------------------------
(* ToolBatch on small batches; the other sets are in the .cfg files.       *)
EXTENDS ToolBatch, TLC

CONSTANTS j1, j2, j3, r1, r2, r3

Ask(t, e, n, r, d) == [tool |-> t, expected |-> e, new |-> n, rule |-> r, deaf |-> d]
Read_ == Ask("read", Absent, Absent, None, {})
Slice == Ask("slice", Absent, Absent, None, {})
Write(e, n) == Ask("write", e, n, None, {})
Rule(r) == Ask("rule", Absent, Absent, r, {})
Bash(d) == Ask("bash", Absent, Absent, None, d)
Find == Ask("search", Absent, Absent, None, {})

Batch(a, b, c) == (j1 :> a) @@ (j2 :> b) @@ (j3 :> c)

Local == Ask("local", Absent, Absent, None, {})
Nothing == Ask("none", Absent, Absent, None, {})

(* Two writes that expect one revision, and a rule; two rules behind a     *)
(* write; whole and partial reads beside a write; shells of every kind,    *)
(* one of them beside a rule; a search.                                    *)
MCBatches ==
    {<<Batch(Write({r1}, {r2}), Write({r1}, {r1, r3}), Rule(r2)), {r1}>>,
     <<Batch(Write({r1}, {r1, r2}), Rule(r2), Rule(r3)), {r1}>>,
     <<Batch(Write(Absent, {r2}), Read_, Local), Absent>>,
     <<Batch(Read_, Slice, Local), {r1}>>,
     <<Batch(Read_, Read_, Nothing), {r1}>>,
     <<Batch(Find, Local, Nothing), Absent>>,
     <<Batch(Bash({}), Rule(r2), Nothing), {r1}>>}
    \cup {<<Batch(Bash(d), Nothing, Nothing), Absent>> : d \in SUBSET {"leader", "rest"}}

MCScribbles == {{r3}}
=============================================================================
