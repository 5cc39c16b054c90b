---------------------------- MODULE MCLoginVerify -----------------------------
EXTENDS LoginVerify

Keep(k) == [kind |-> k, keep |-> TRUE]
Last(k) == [kind |-> k, keep |-> FALSE]
Scripts == <<<<Keep("plain"), Keep("verify"), Keep("bad")>>, <<Last("verify")>>>>
=============================================================================
