----------------------------- MODULE MCRecovery -----------------------------
EXTENDS Recovery, TLC

CONSTANTS B1, B2, B3, j1, p1, p2

\* One job, whose id encodes the slot of broker B1.
MCHint == (j1 :> B1)

\* Two brokers, with every fault: either may crash or be shut down, store calls
\* fail, and the lease of the job's own broker may lapse.
Faulty ==
  [brokers |-> {B1, B2}, mortal |-> {B1, B2}, timely |-> {B2},
   polls |-> {<<p1, B1>>, <<p1, B2>>, <<p2, B2>>},
   shutdowns |-> TRUE, storeFails |-> TRUE]

\* Three brokers: the job's own may crash or let its lease lapse, and polls come
\* through each of the others at the same time.
Rivals ==
  [brokers |-> {B1, B2, B3}, mortal |-> {B1}, timely |-> {B2, B3},
   polls |-> {<<p1, B2>>, <<p2, B3>>},
   shutdowns |-> FALSE, storeFails |-> TRUE]

\* Only crashes: of one of two brokers, or of two of three.
OneCrash ==
  [brokers |-> {B1, B2}, mortal |-> {B1}, timely |-> {},
   polls |-> {<<p1, B1>>, <<p1, B2>>},
   shutdowns |-> FALSE, storeFails |-> FALSE]
TwoCrashes ==
  [brokers |-> {B1, B2, B3}, mortal |-> {B1, B2}, timely |-> {B1, B2, B3},
   polls |-> {<<p1, B1>>, <<p1, B2>>, <<p1, B3>>},
   shutdowns |-> FALSE, storeFails |-> FALSE]

\* Two brokers that renew on time, the first of which is shut down.
OneShutdown ==
  [brokers |-> {B1, B2}, mortal |-> {B1}, timely |-> {B1, B2},
   polls |-> {<<p1, B1>>, <<p1, B2>>},
   shutdowns |-> TRUE, storeFails |-> FALSE]

FaultyRivalsOrOneCrash == {Faulty, Rivals, OneCrash}
OnlyTwoCrashes == {TwoCrashes}
OnlyOneShutdown == {OneShutdown}
=============================================================================
