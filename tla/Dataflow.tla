------------------------------- MODULE Dataflow -------------------------------
(***************************************************************************)
(* What a simulation run means, whatever the order in which the controller *)
(* visits the stars: a network of stars joined by links that hold samples. *)
(* A star fires by taking one sample from every link it reads and adding   *)
(* its rate to every link it writes; a star that reads no link is a        *)
(* source and fires Total times.  A run is over when no star can fire.     *)
(***************************************************************************)
EXTENDS Integers, FiniteSets, FiniteSetsExt

CONSTANTS
    Star,
    Total,          \* Total[s]: the samples a source star has to offer
    Networks,       \* the networks: records of links \subseteq Star \X Star,
                    \* delay \in [links -> Nat] and rate \in [Star -> Nat]
    Horizon         \* rounds of Expected: enough to reach its fixed point

VARIABLES
    net,            \* the links <<from, to>> and the samples they start with
    fired,          \* fired[s]: the firings of s in this run
    status          \* "idle", "running", "done" or "failed"

dvars == <<net, fired, status>>

(* The links s takes samples from, in the network n. *)
Reads(n, s) == {l \in n.links : l[2] = s}

InLinks(s)  == Reads(net, s)
OutLinks(s) == {l \in net.links : l[1] = s}
IsSource(s) == InLinks(s) = {}

(* The samples a link holds. *)
Held(l) == net.delay[l] + net.rate[l[1]] * fired[l[1]] - fired[l[2]]

(* How often s can fire before another star does. *)
Available(s) == IF IsSource(s) THEN Total[s] - fired[s]
                ELSE Min({Held(l) : l \in InLinks(s)})

-----------------------------------------------------------------------------
Init == /\ net \in Networks
        /\ fired = [s \in Star |-> 0]
        /\ status = "idle"

Start == /\ status # "running"
         /\ status' = "running"
         /\ fired' = [s \in Star |-> 0]
         /\ UNCHANGED net

Fire(s, n) == /\ status = "running"
              /\ fired' = [fired EXCEPT ![s] = @ + n]
              /\ UNCHANGED <<net, status>>

Finish == /\ status = "running"
          /\ \A s \in Star : Available(s) = 0
          /\ status' = "done"
          /\ UNCHANGED <<net, fired>>

Fail == /\ status \in {"running", "done"}
        /\ status' = "failed"
        /\ UNCHANGED <<net, fired>>

Next == \/ Start \/ Finish \/ Fail
        \/ \E s \in Star : \E n \in 1..Available(s) : Fire(s, n)

Spec == Init /\ [][Next]_dvars

-----------------------------------------------------------------------------
TypeOK == /\ net \in Networks
          /\ fired \in [Star -> Nat]
          /\ status \in {"idle", "running", "done", "failed"}

(* No star takes a sample that is not there. *)
NoUnderflow == \A l \in net.links : Held(l) >= 0

(* How often the stars of the network n can fire in all when the others   *)
(* have fired f times: a source has Total samples, any other star those of *)
(* its scarcest link.                                                      *)
Supply(n, f) ==
    [s \in Star |->
       IF Reads(n, s) = {} THEN Total[s]
       ELSE Min({n.delay[l] + n.rate[l[1]] * f[l[1]] : l \in Reads(n, s)})]

(* Supply, time after time from zero. *)
Rounds(n) ==
    LET round[k \in 0..Horizon] ==
          IF k = 0 THEN [s \in Star |-> 0] ELSE Supply(n, round[k - 1])
    IN round

(* The firings a network calls for: the least solution of f = Supply(n, f). *)
ExpectedOf(n) == Rounds(n)[Horizon]

Expected == ExpectedOf(net)

(* A finished run has fired every star as often as the network calls for:  *)
(* the result is a property of the topology, not of the order of visits.   *)
Delivered == status = "done" => fired = Expected
=============================================================================
