------------------------------- MODULE Membership -------------------------------
(***************************************************************************)
(* The membership page asks the network whether the connected wallet holds *)
(* a key (lib/use-unlock-membership.ts).  A check that was started is not  *)
(* called off when the wallet changes, and whichever answers last is       *)
(* believed.                                                               *)
(***************************************************************************)
EXTENDS Integers, Sequences, FiniteSets

Seqs == INSTANCE SequencesExt

CONSTANTS Wallets, Holders, \* the wallets, and those with a key
          NoWallet,
          MaxChecks         \* bound: checks ever started

ASSUME MembershipAssumption == Holders \subseteq Wallets /\ NoWallet \notin Wallets
                               /\ MaxChecks \in Nat

VARIABLES chosen,   \* the account the wallet program offers
          address, hasKey, checking, \* the hook's state
          asked,    \* requests for the accounts not answered yet
          flights,  \* checks not answered yet
          started,  \* checks so far
          overtaken \* history: something was done while a check was out

mvars == <<chosen, address, hasKey, checking, asked, flights, started, overtaken>>

MembershipInit ==
    /\ chosen \in Wallets \cup {NoWallet}
    /\ address = NoWallet /\ hasKey = FALSE /\ checking = FALSE
    /\ asked \in {0, 1} \* whether the page looks by itself
    /\ flights = << >> /\ started = 0 /\ overtaken = FALSE

Overtakes == overtaken' = (overtaken \/ flights # << >>)

checkKey(wallet) ==
    /\ started < MaxChecks /\ started' = started + 1
    /\ flights' = Append(flights, wallet)
    /\ checking' = TRUE

\* connect: the accounts are asked for, and answered when the user allows it.
connect ==
    /\ asked < 2 /\ asked' = asked + 1
    /\ UNCHANGED <<chosen, address, hasKey, checking, flights, started, overtaken>>

\* A connected wallet is checked; without one, connect leaves none, and the page's
\* own first look leaves what is there.
Accounts ==
    /\ asked > 0 /\ asked' = asked - 1
    /\ \/ chosen # NoWallet /\ address' = chosen /\ checkKey(chosen) /\ Overtakes
       \/ /\ chosen = NoWallet /\ address' \in {NoWallet, address}
          /\ Overtakes /\ UNCHANGED <<checking, flights, started>>
    /\ UNCHANGED <<chosen, hasKey>>

accountsChanged(next) ==
    /\ next # chosen /\ chosen' = next /\ address' = next /\ Overtakes
    /\ IF next = NoWallet THEN hasKey' = FALSE /\ UNCHANGED <<checking, flights, started>>
       ELSE checkKey(next) /\ UNCHANGED hasKey
    /\ UNCHANGED asked

disconnect ==
    /\ address # NoWallet
    /\ address' = NoWallet /\ hasKey' = FALSE /\ Overtakes
    /\ UNCHANGED <<chosen, checking, asked, flights, started>>

refresh ==
    /\ address # NoWallet /\ checkKey(address) /\ Overtakes
    /\ UNCHANGED <<chosen, address, hasKey, asked>>

\* Slip: a check that fails leaves what was known.
FailedKeeps == hasKey

Failed == FALSE

\* A check answers, in any order, or fails.
Answer(i) ==
    /\ i \in DOMAIN flights
    /\ flights' = Seqs!RemoveAt(flights, i)
    /\ checking' = FALSE
    /\ hasKey' \in {flights[i] \in Holders, Failed}
    /\ UNCHANGED <<chosen, address, asked, started, overtaken>>

MembershipNext ==
    \/ connect \/ Accounts \/ disconnect \/ refresh
    \/ \E next \in Wallets \cup {NoWallet} : accountsChanged(next)
    \/ \E i \in 1..MaxChecks : Answer(i)

MembershipSpec == MembershipInit /\ [][MembershipNext]_mvars

-------------------------------------------------------------------------------
(* Properties. *)

\* Unless a check was overtaken, the page that has stopped checking unlocks only for
\* a connected wallet that holds a key, after failures and changes of wallet too;
\* and it has stopped exactly when no check is out.
MembershipIsOwn ==
    ~overtaken => /\ checking = (flights # << >>)
                  /\ ~checking /\ hasKey => address \in Holders
===============================================================================
