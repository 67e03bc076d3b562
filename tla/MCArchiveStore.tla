-------------------------- MODULE MCArchiveStore --------------------------
(* ArchiveStore on a small instance. *)
EXTENDS ArchiveStore, TLC

CONSTANTS m1, m2, c1, c2, i1, i2, b1

ChatOfMessage == m1 :> c1 @@ m2 :> c2
SameBytes == i1 :> b1 @@ i2 :> b1
AccountOrChat == {Account, {c1}}

Body(text, fill, media) == [text |-> text, fill |-> fill, media |-> media]
Event(msg, id, order, origin, content, open, complete) ==
    [msg |-> msg, id |-> id, order |-> order, origin |-> origin, content |-> content,
     open |-> open, complete |-> complete,
     target |-> Nothing, revision |-> Nothing, expected |-> Nothing]
Aimed(event, target, revision, expected) ==
    [event EXCEPT !.target = target, !.revision = revision, !.expected = expected]

\* No action tells the jobs apart.
JobSymmetry == Permutations(Jobs)

First == Body("first", "", {i1})
Filled == Body("first", "filled", {i1})
Other == Body("first", "other", {i1})
Second == Body("second", "filled", {i2})
Copy == Body("copy", "filled", {i1})

\* m1 is captured in parts, edited, confirmed and consumed; m2 shares its media.
Captures ==
    { Event(m1, "base", 1, "Baseline", First, TRUE, FALSE),
      Aimed(Event(m1, "fill", 1, "Hydration", Filled, FALSE, TRUE), "base", "base", First),
      Aimed(Event(m1, "part", 1, "Hydration", Other, TRUE, FALSE), "base", "base", First),
      Aimed(Event(m1, "over", 1, "Hydration", Filled, FALSE, TRUE), "base", "base", Other),
      Event(m1, "edit", 2, "AuthoritativeEdit", Second, FALSE, TRUE),
      Event(m1, "again", 3, "Baseline", Second, TRUE, FALSE),
      Aimed(Event(m1, "expire", 4, "MediaExpiry", Nothing, FALSE, FALSE), "edit", "edit", Second),
      Event(m2, "base", 1, "Baseline", Copy, FALSE, TRUE),
      Event(m2, "same", 2, "AuthoritativeEdit", Copy, FALSE, TRUE),
      Event(m2, "gone", 3, "LocalDelete", Nothing, FALSE, FALSE) }
=============================================================================
