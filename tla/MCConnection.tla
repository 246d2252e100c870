---------------------------- MODULE MCConnection ----------------------------
(* Instances of Connection for TLC: what the broker sends in each run, the *)
(* addresses the application gives and those a redirection names.          *)
EXTENDS Connection

AllAnswers ==
    {"accepted", "present", "refused", "moved", "disconnect", "disconnectMoved", "malformed"}
\* Without a session the client does not know.
KnownSessions == AllAnswers \ {"present"}
\* Without a redirection either.
OneBroker == {"accepted", "refused", "disconnect", "malformed"}

TwoAddresses == [primary |-> "A", others |-> <<"B">>]
NoRedirections == {}
To(addresses) == [permanent |-> FALSE, reference |-> addresses]
\* To a server the application has not named.
ToAnother == {To(<<"C">>)}
\* Also without a name, to one that is known and another, or for good.
ToAny == {To(<<"C">>), To(<<>>), To(<<"B", "C">>),
          [permanent |-> TRUE, reference |-> <<"C", "B">>]}
\* For good to one that is known.
ToKnown == {[permanent |-> TRUE, reference |-> <<"B">>]}
=============================================================================
