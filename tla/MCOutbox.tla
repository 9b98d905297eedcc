------------------------------ MODULE MCOutbox ------------------------------
(* Small instances of the outbox for TLC.                                  *)
EXTENDS OutboxProperties, TLC

CONSTANTS p1, p2, f1, f2, c1, u1

TwoPosts   == {p1, p2}
OnePost    == {p1}
TwoForeign == {f1, f2}
Nothing    == {}
OneUpload  == {u1}
OneForeign == {f1}
OneConv    == {c1}
Everything == Messages

OneRoom     == [m \in Messages |-> c1]
NoFiles     == [p \in Posts |-> {}]
OnlyHasOne  == [p \in Posts |-> {u1}]
=============================================================================
