-------------------------- MODULE RifSemaphoreSpec --------------------------
(***************************************************************************)
(* Abstract specification of one RIF hardware semaphore as seen by OP-TEE  *)
(* (compartment OpteeCid) and by the other compartments of the SoC.        *)
(*                                                                         *)
(* The semaphore has one holder at a time (NoCid when free).  OP-TEE asks  *)
(* to acquire or to release it; a call ends with Success or AccessDenied.  *)
(* What a call promises:                                                   *)
(*   - an acquire that returns Success leaves OP-TEE the holder, and one   *)
(*     that returns AccessDenied finds another holder or none;             *)
(*   - a release that returns Success leaves OP-TEE not the holder, and    *)
(*     one that returns AccessDenied finds OP-TEE still the holder;        *)
(*   - OP-TEE takes the semaphore only inside an acquire call and gives it *)
(*     back only inside a release call.                                    *)
(***************************************************************************)
EXTENDS Naturals

CONSTANTS
    Cids,       \* compartment identifiers that can reach the semaphore
    OpteeCid,   \* the compartment OP-TEE runs in (RIF_CID1)
    WhiteList,  \* SEMWL: the compartments allowed to take the semaphore
    NoCid       \* holder value of a free semaphore

ASSUME OpteeCid \in Cids /\ WhiteList \subseteq Cids /\ NoCid \notin Cids

Ops     == {"acquire", "release"}
Results == {"Success", "AccessDenied"}

VARIABLES
    holder,     \* the compartment holding the semaphore, or NoCid
    call,       \* the call OP-TEE has in progress, or "none"
    result      \* the result of OP-TEE's last call, or "none"

vars == <<holder, call, result>>

TypeOK ==
    /\ holder \in Cids \cup {NoCid}
    /\ call \in Ops \cup {"none"}
    /\ result \in Results \cup {"none"}

Init ==
    /\ holder = NoCid
    /\ call = "none"
    /\ result = "none"

\* Another compartment takes the free semaphore or gives back its own.
OtherTake(c) ==
    /\ holder = NoCid /\ c \in WhiteList
    /\ holder' = c
    /\ UNCHANGED <<call, result>>

OtherGive(c) ==
    /\ holder = c
    /\ holder' = NoCid
    /\ UNCHANGED <<call, result>>

Call(op) ==
    /\ call = "none"
    /\ call' = op
    /\ UNCHANGED <<holder, result>>

\* Within an acquire call OP-TEE may take the free semaphore.
OpteeTake ==
    /\ call = "acquire" /\ holder = NoCid /\ OpteeCid \in WhiteList
    /\ holder' = OpteeCid
    /\ UNCHANGED <<call, result>>

\* Within a release call OP-TEE may give back the semaphore it holds.
OpteeGive ==
    /\ call = "release" /\ holder = OpteeCid
    /\ holder' = NoCid
    /\ UNCHANGED <<call, result>>

Consistent(op, r) ==
    \/ op = "acquire" /\ r = "Success"      /\ holder = OpteeCid
    \/ op = "acquire" /\ r = "AccessDenied" /\ holder # OpteeCid
    \/ op = "release" /\ r = "Success"      /\ holder # OpteeCid
    \/ op = "release" /\ r = "AccessDenied" /\ holder = OpteeCid

Return(r) ==
    /\ call # "none"
    /\ Consistent(call, r)
    /\ call' = "none"
    /\ result' = r
    /\ UNCHANGED holder

Next ==
    \/ \E c \in Cids \ {OpteeCid} : OtherTake(c) \/ OtherGive(c)
    \/ \E op \in Ops : Call(op)
    \/ OpteeTake
    \/ OpteeGive
    \/ \E r \in Results : Return(r)

Spec == Init /\ [][Next]_vars
=============================================================================
