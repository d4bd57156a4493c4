----------------------------- MODULE MCLogStore -----------------------------
(* An instance of LogStore: one old log to move, one cleared, an orphan, and *)
(* a writer that shares chunks between rows and slots.                       *)
EXTENDS LogStore, TLC

Slot(meta, kind, pieces) == [meta |-> meta, kind |-> kind, pieces |-> pieces]
Row(one, two, status, retried) ==
    [slots |-> <<one, two>>, status |-> status, retried |-> retried]
None == Slot("none", "none", <<>>)

\* Both sides saw the same body; a body rewritten on the way; nothing kept.
Same == Row(Slot("m1", "text", <<"a", "b">>), Slot("m1", "text", <<"a", "b">>), "ok", FALSE)
Rewritten == Row(Slot("m2", "text", <<"b", "a">>), Slot("m1", "text", <<"a", "c">>), "failed", TRUE)
Bare == Row(Slot("m3", "omitted", <<>>), None, "cancelled", FALSE)

MCBatches == {<<Same>>, <<Rewritten, Bare>>}
MCOldLogs == (2 :> Rewritten) @@ (3 :> Bare)
MCOldOrphans == (1 :> Same)
MCOldCleared == {3}
=============================================================================
