----------------------------- MODULE MCHttpPoll -----------------------------
(* Model values and bounds for HttpPoll. *)
EXTENDS HttpPoll

CONSTANTS alice, bob, m1, m2

\* Alice publishes the first message, bob the others.
TheAuthor == [m \in Messages |-> IF m = m1 THEN alice ELSE bob]

\* One request or response is lost with the Node endpoint; with the PHP one the
\* requests of concurrent processes already lose and repeat messages.
TheFailures == [e \in Endpoints |-> IF e = "node" THEN 1 ELSE 0]

=============================================================================
