------------------------ MODULE MCArchiveSqlPurge -------------------------
(* ArchiveSqlPurge on a small instance. *)
EXTENDS ArchiveSqlPurge, TLC

CONSTANTS m1, m2, c1, c2, i1, b1

ChatOfMessage == m1 :> c1 @@ m2 :> c2
OwnBytes == i1 :> b1
OneOrBothChats == {{c1}, {c1, c2}}

Body(text, media) == [text |-> text, fill |-> "", media |-> media]
Event(msg, id, order, origin, content) ==
    [msg |-> msg, id |-> id, order |-> order, origin |-> origin, content |-> content,
     open |-> FALSE, complete |-> content # Nothing,
     target |-> Nothing, revision |-> Nothing, expected |-> Nothing]

\* m1 is edited and deleted, m2 shows the same media.
Captures ==
    { Event(m1, "base", 1, "Baseline", Body("first", {i1})),
      Event(m1, "edit", 2, "AuthoritativeEdit", Body("second", {i1})),
      Event(m1, "del", 3, "AuthoritativeDelete", Nothing),
      Event(m2, "base", 1, "Baseline", Body("copy", {i1})) }
=============================================================================
