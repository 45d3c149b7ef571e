---------------------------- MODULE MCInitiator ----------------------------
(* Small instances of Initiator.                                           *)
EXTENDS InitiatorProps, TLC

CONSTANTS c1, c2, r1, r2, v

\* A peer that answers, in any order and any number of times.
Answering == {Plain("hello"), Res(1, v), Res(2, v)}

\* One that answers, and then breaks the reader loop.
Disrupting == {Plain("hello"), Res(1, v), Plain("notdict")}

\* A peer that sends anything: also what is no message, and malformed errors.
Anything == Answering \cup {Plain("other"), Plain("notdict"), Plain("garbage"),
                            Res(0, v), BadRes(1), BadRes(2)}

\* Clients and callers are interchangeable.
Alike == Permutations({c1, c2}) \cup Permutations({r1, r2})

=============================================================================
