------------------------- MODULE PlaneLedgerProofs --------------------------
(***************************************************************************)
(* Two records that workers write to at once.                              *)
(*                                                                         *)
(* Shard leases for any number of workers, shards and overlapping          *)
(* renewals, any lease time and any clocks, ahead or behind: until the     *)
(* database lets it lapse, what a plane believes it holds is its own in    *)
(* the lease table, and so two planes may probe a shard at once only over  *)
(* a grant that a clock behind makes outlast its lease, or that a plane    *)
(* undercut itself.                                                        *)
(*                                                                         *)
(* The hash chain of an actor for any number of transactions, any length   *)
(* of the chain, any counter width of the hybrid clock and any movement of *)
(* the wall clock: verifyChain finds it valid.  And the uptime added up    *)
(* from those observations is, on every window and for any horizon, the    *)
(* time the last of them vouches for.                                      *)
(***************************************************************************)
EXTENDS ShardLeases, Ledger, SequenceTheorems, FiniteSetTheorems, WellFoundedInduction, TLAPS

-----------------------------------------------------------------------------
(* Shard leases *)

\* The life of a plane: it stops before it is down, and reloads only before.
PlaneLife ==
    \A w \in Worker :
        /\ plane[w].stopping => ~ plane[w].up
        /\ reload[w].stage # "none" => plane[w].up \/ plane[w].stopping

\* leaseEpoch: no claim in flight is of a later epoch, and none is of the
\* epoch of a plane that stopped or is handing its shards back.
EpochsPast ==
    \A w \in Worker : \A c \in Call :
        claim[w][c].stage # "none" =>
            /\ claim[w][c].epoch <= plane[w].epoch
            /\ ~ plane[w].up => claim[w][c].epoch # plane[w].epoch
            /\ reload[w].stage = "releasing" => claim[w][c].epoch # plane[w].epoch

\* A plane that hands its shards back has dropped them and claims no more.
DroppedFirst ==
    \A w \in Worker :
        reload[w].stage = "releasing" => ~ plane[w].wants /\ plane[w].leases = None

\* A grant that has not lapsed is in the table, for at least as long.
Backs(w, grant, table) ==
    \A s \in DOMAIN grant :
        grant[s] >= 0 => table[s].owner = w /\ table[s].left >= grant[s]

\* An answer the plane would still accept.
Accepted(w, c) == claim[w][c].stage = "answered" /\ claim[w][c].epoch = plane[w].epoch

\* Both the memory of a plane and every answer it would still accept.
BackedFor(w) ==
    ~ undercut[w] =>
        /\ Backs(w, plane[w].leases, lease)
        /\ \A c \in Call : Accepted(w, c) => Backs(w, claim[w][c].grant, lease)

GrantsBacked == \A w \in Worker : BackedFor(w)

\* The inductive invariant.
LeaseInv ==
    /\ LeaseTypeOK
    /\ PlaneLife
    /\ EpochsPast
    /\ DroppedFirst
    /\ GrantsBacked
-----------------------------------------------------------------------------
\* A grant is a function from shards to the time left of each.
LEMMA GrantShape ==
    /\ None \in Grants /\ DOMAIN None = {}
    /\ \A g \in Grants : /\ DOMAIN g \subseteq Shard
                         /\ \A s \in DOMAIN g : g[s] \in Left
    /\ \A S \in SUBSET Shard : [s \in S |-> TTL] \in Grants
<1>1. TTL \in Left
  BY LeaseConstants DEF Left
<1>2. None \in Grants /\ DOMAIN None = {}
  BY DEF None, Grants
<1>3. \A g \in Grants : /\ DOMAIN g \subseteq Shard
                        /\ \A s \in DOMAIN g : g[s] \in Left
  BY DEF Grants
<1>4. \A S \in SUBSET Shard : [s \in S |-> TTL] \in Grants
  <2> SUFFICES ASSUME NEW S \in SUBSET Shard PROVE [s \in S |-> TTL] \in Grants
    OBVIOUS
  <2>1. [s \in S |-> TTL] \in [S -> Left]
    BY <1>1
  <2> QED  BY <2>1 DEF Grants
<1> QED  BY <1>2, <1>3, <1>4

\* What time does to a grant.
LEMMA AgedGrant ==
    ASSUME NEW g \in Grants
    PROVE  /\ Aged(g) \in Grants /\ DOMAIN Aged(g) = DOMAIN g
           /\ \A s \in DOMAIN g : Aged(g)[s] = Older(g[s], - Lag)
<1>1. \A n \in Left : Older(n, - Lag) \in Left
  BY LeaseConstants DEF Left, Older
<1>2. \A s \in DOMAIN g : Older(g[s], - Lag) \in Left
  BY <1>1, GrantShape
<1>3. DOMAIN g \in SUBSET Shard
  BY GrantShape
<1>4. Aged(g) \in [DOMAIN g -> Left]
  BY <1>2 DEF Aged
<1> QED  BY <1>3, <1>4 DEF Grants, Aged

\* The invariant holds before the first claim.
LEMMA InitInv == LeaseInit => LeaseInv
<1> SUFFICES ASSUME LeaseInit PROVE LeaseInv
  OBVIOUS
<1> USE LeaseConstants, GrantShape DEF LeaseInit, NewPlane, NoReload, NoClaim
<1>1. LeaseTypeOK
  BY DEF LeaseTypeOK, Free, Left
<1>2. PlaneLife /\ EpochsPast /\ DroppedFirst
  BY DEF PlaneLife, EpochsPast, DroppedFirst
<1>3. GrantsBacked
  BY DEF GrantsBacked, BackedFor, Backs, Accepted
<1> QED  BY <1>1, <1>2, <1>3 DEF LeaseInv

\* The rows LeaseTypeOK speaks of.
PlaneRow == [up : BOOLEAN, stopping : BOOLEAN, wants : BOOLEAN, epoch : Nat,
             leases : Grants]

ReloadRow == [stage : {"none", "read", "claiming", "releasing"}, found : BOOLEAN,
              shards : SUBSET Shard]

ClaimRow == [stage : {"none", "sent", "answered"}, epoch : Nat, grant : Grants]

LeaseRow == [owner : Worker \cup {Nobody}, left : Left]

\* LeaseTypeOK in terms of these rows.
LEMMA Typed ==
    /\ LeaseTypeOK <=> /\ lease \in [Shard -> LeaseRow]
                       /\ fleet \in BOOLEAN
                       /\ plane \in [Worker -> PlaneRow]
                       /\ reload \in [Worker -> ReloadRow]
                       /\ claim \in [Worker -> [Call -> ClaimRow]]
                       /\ undercut \in [Worker -> BOOLEAN]
                       /\ upsets \in Nat
    /\ LeaseTypeOK' <=> /\ lease' \in [Shard -> LeaseRow]
                        /\ fleet' \in BOOLEAN
                        /\ plane' \in [Worker -> PlaneRow]
                        /\ reload' \in [Worker -> ReloadRow]
                        /\ claim' \in [Worker -> [Call -> ClaimRow]]
                        /\ undercut' \in [Worker -> BOOLEAN]
                        /\ upsets' \in Nat
BY DEF LeaseTypeOK, LeaseRow, PlaneRow, ReloadRow, ClaimRow

\* A plane's record as stop rewrites it,
LEMMA PlaneStopped ==
    ASSUME NEW r \in PlaneRow, NEW e \in Nat
    PROVE  /\ [r EXCEPT !.up = FALSE, !.stopping = TRUE, !.epoch = e] \in PlaneRow
           /\ [r EXCEPT !.up = FALSE, !.stopping = TRUE, !.epoch = e].up = FALSE
           /\ [r EXCEPT !.up = FALSE, !.stopping = TRUE, !.epoch = e].stopping = TRUE
           /\ [r EXCEPT !.up = FALSE, !.stopping = TRUE, !.epoch = e].wants = r.wants
           /\ [r EXCEPT !.up = FALSE, !.stopping = TRUE, !.epoch = e].epoch = e
           /\ [r EXCEPT !.up = FALSE, !.stopping = TRUE, !.epoch = e].leases = r.leases
<1> DEFINE q == [r EXCEPT !.up = FALSE, !.stopping = TRUE, !.epoch = e]
<1>1. q = [r EXCEPT !.up = FALSE, !.stopping = TRUE, !.epoch = e]
  OBVIOUS
<1> HIDE DEF q
<1>2. /\ q \in PlaneRow
      /\ q.up = FALSE
      /\ q.stopping = TRUE
      /\ q.wants = r.wants
      /\ q.epoch = e
      /\ q.leases = r.leases
  BY <1>1, GrantShape DEF PlaneRow
<1> QED  BY <1>1, <1>2

\* and as a reload does that found no monitor.
LEMMA PlaneIdled ==
    ASSUME NEW r \in PlaneRow, NEW e \in Nat
    PROVE  /\ [r EXCEPT !.wants = FALSE, !.leases = None, !.epoch = e] \in PlaneRow
           /\ [r EXCEPT !.wants = FALSE, !.leases = None, !.epoch = e].up = r.up
           /\ [r EXCEPT !.wants = FALSE, !.leases = None, !.epoch = e].stopping = r.stopping
           /\ [r EXCEPT !.wants = FALSE, !.leases = None, !.epoch = e].wants = FALSE
           /\ [r EXCEPT !.wants = FALSE, !.leases = None, !.epoch = e].epoch = e
           /\ [r EXCEPT !.wants = FALSE, !.leases = None, !.epoch = e].leases = None
<1> DEFINE q == [r EXCEPT !.wants = FALSE, !.leases = None, !.epoch = e]
<1>1. q = [r EXCEPT !.wants = FALSE, !.leases = None, !.epoch = e]
  OBVIOUS
<1> HIDE DEF q
<1>2. /\ q \in PlaneRow
      /\ q.up = r.up
      /\ q.stopping = r.stopping
      /\ q.wants = FALSE
      /\ q.epoch = e
      /\ q.leases = None
  BY <1>1, GrantShape DEF PlaneRow
<1> QED  BY <1>1, <1>2

\* stop's change of a plane's fields.
LEMMA StopEffect ==
    ASSUME LeaseTypeOK, NEW w \in Worker, Stop(w)
    PROVE  /\ plane' \in [Worker -> PlaneRow]
           /\ ~ plane'[w].up /\ plane'[w].stopping
           /\ plane'[w].wants = plane[w].wants
           /\ plane'[w].epoch = plane[w].epoch + 1
           /\ plane'[w].leases = plane[w].leases
           /\ \A v \in Worker \ {w} : plane'[v] = plane[v]
           /\ plane[w].up /\ upsets' \in Nat
           /\ UNCHANGED <<lease, fleet, reload, claim, undercut>>
<1> DEFINE q == [plane[w] EXCEPT !.up = FALSE, !.stopping = TRUE,
                                 !.epoch = NextEpoch(plane[w].epoch)]
<1>1. plane' = [plane EXCEPT ![w] = q]
  BY DEF Stop
<1>2. plane \in [Worker -> PlaneRow] /\ NextEpoch(plane[w].epoch) = plane[w].epoch + 1
  BY Typed DEF PlaneRow, NextEpoch
<1>3. plane[w] \in PlaneRow /\ NextEpoch(plane[w].epoch) \in Nat
  BY <1>2 DEF PlaneRow
<1>4. /\ q \in PlaneRow /\ ~ q.up /\ q.stopping /\ q.wants = plane[w].wants
      /\ q.epoch = plane[w].epoch + 1 /\ q.leases = plane[w].leases
  BY <1>2, <1>3, PlaneStopped
<1>5. /\ plane[w].up /\ upsets' \in Nat
      /\ UNCHANGED <<lease, fleet, reload, claim, undercut>>
  BY Typed DEF Stop, Upset
<1> HIDE DEF q
<1> QED  BY <1>1, <1>2, <1>4, <1>5

\* What a reload that found no monitor makes of them.
LEMMA IdleEffect ==
    ASSUME LeaseTypeOK, NEW w \in Worker, ReloadIdles(w)
    PROVE  /\ plane' \in [Worker -> PlaneRow]
           /\ plane'[w].up = plane[w].up /\ plane'[w].stopping = plane[w].stopping
           /\ ~ plane'[w].wants
           /\ plane'[w].epoch = plane[w].epoch + 1
           /\ plane'[w].leases = None
           /\ reload' \in [Worker -> ReloadRow]
           /\ reload'[w].stage \in {"none", "releasing"}
           /\ \A v \in Worker \ {w} : plane'[v] = plane[v] /\ reload'[v] = reload[v]
           /\ plane[w].up
           /\ UNCHANGED <<lease, fleet, claim, undercut, upsets>>
<1> DEFINE q == [plane[w] EXCEPT !.wants = FALSE, !.leases = None,
                                 !.epoch = NextEpoch(plane[w].epoch)]
<1>1. plane' = [plane EXCEPT ![w] = q]
  BY DEF ReloadIdles
<1>2. plane \in [Worker -> PlaneRow] /\ NextEpoch(plane[w].epoch) = plane[w].epoch + 1
  BY Typed DEF PlaneRow, NextEpoch
<1>3. plane[w] \in PlaneRow /\ NextEpoch(plane[w].epoch) \in Nat
  BY <1>2 DEF PlaneRow
<1>4. /\ q \in PlaneRow /\ q.up = plane[w].up /\ q.stopping = plane[w].stopping
      /\ ~ q.wants /\ q.epoch = plane[w].epoch + 1 /\ q.leases = None
  BY <1>2, <1>3, PlaneIdled
<1>5. plane[w].up /\ UNCHANGED <<lease, fleet, claim, undercut, upsets>>
  BY DEF ReloadIdles
<1>6. /\ reload' \in [Worker -> ReloadRow] /\ reload'[w].stage \in {"none", "releasing"}
      /\ \A v \in Worker \ {w} : reload'[v] = reload[v]
  <2>1. DOMAIN plane[w].leases \in SUBSET Shard
    BY <1>3, GrantShape DEF PlaneRow
  <2>2. reload \in [Worker -> ReloadRow]
    BY Typed
  <2> QED  BY <2>1, <2>2 DEF ReloadIdles, NoReload, ReloadRow
<1> HIDE DEF q
<1> QED  BY <1>1, <1>2, <1>4, <1>5, <1>6

\* What claimShards' statement answers.
LEMMA ClaimEffect ==
    ASSUME LeaseTypeOK, NEW w \in Worker, NEW c \in Call, ClaimShards(w, c)
    PROVE  /\ claim' \in [Worker -> [Call -> ClaimRow]]
           /\ claim'[w][c].stage = "answered"
           /\ claim'[w][c].epoch = claim[w][c].epoch
           /\ claim'[w][c].grant = [s \in Granted(w) |-> TTL]
           /\ \A d \in Call \ {c} : claim'[w][d] = claim[w][d]
           /\ \A v \in Worker \ {w} : claim'[v] = claim[v]
           /\ claim[w][c].stage = "sent"
           /\ UNCHANGED <<fleet, plane, reload, upsets>>
<1> DEFINE g == [s \in Granted(w) |-> TTL]
           q == [claim[w][c] EXCEPT !.stage = "answered", !.grant = g]
<1>1. claim' = [claim EXCEPT ![w][c] = q]
  BY DEF ClaimShards
<1>2. claim \in [Worker -> [Call -> ClaimRow]] /\ g \in Grants
  BY Typed, GrantShape DEF Granted
<1>3. claim[w][c] \in ClaimRow
  BY <1>2
<1> HIDE DEF g
<1>4. q \in ClaimRow /\ q.stage = "answered" /\ q.epoch = claim[w][c].epoch /\ q.grant = g
  BY <1>2, <1>3 DEF ClaimRow
<1> HIDE DEF q
<1>5. /\ claim'[w] = [claim[w] EXCEPT ![c] = q]
      /\ \A v \in Worker \ {w} : claim'[v] = claim[v]
  BY <1>1, <1>2
<1>6. claim[w][c].stage = "sent" /\ UNCHANGED <<fleet, plane, reload, upsets>>
  BY DEF ClaimShards
<1> QED  BY <1>1, <1>2, <1>4, <1>5, <1>6 DEF g

\* What a unit of time does to the table and to every memory of it.
LEMMA ClockEffect ==
    ASSUME LeaseTypeOK, Clock
    PROVE  /\ lease' \in [Shard -> LeaseRow]
           /\ plane' \in [Worker -> PlaneRow]
           /\ claim' \in [Worker -> [Call -> ClaimRow]]
           /\ \A s \in Shard : /\ lease'[s].owner = lease[s].owner
                               /\ lease'[s].left = Older(lease[s].left, -1)
           /\ \A w \in Worker :
                /\ plane'[w].up = plane[w].up /\ plane'[w].stopping = plane[w].stopping
                /\ plane'[w].wants = plane[w].wants /\ plane'[w].epoch = plane[w].epoch
                /\ plane'[w].leases = Aged(plane[w].leases)
           /\ \A w \in Worker : \A c \in Call :
                /\ claim'[w][c].stage = claim[w][c].stage
                /\ claim'[w][c].epoch = claim[w][c].epoch
                /\ claim'[w][c].grant = Aged(claim[w][c].grant)
           /\ UNCHANGED <<fleet, reload, undercut, upsets>>
<1>1. \A n \in Left : Older(n, -1) \in Left
  BY LeaseConstants DEF Left, Older
<1>2. ASSUME NEW s \in Shard
      PROVE  /\ lease'[s] \in LeaseRow
             /\ lease'[s].owner = lease[s].owner
             /\ lease'[s].left = Older(lease[s].left, -1)
  BY <1>1, Typed DEF Clock, LeaseRow
<1>3. ASSUME NEW w \in Worker
      PROVE  /\ plane'[w] \in PlaneRow
             /\ plane'[w].up = plane[w].up /\ plane'[w].stopping = plane[w].stopping
             /\ plane'[w].wants = plane[w].wants /\ plane'[w].epoch = plane[w].epoch
             /\ plane'[w].leases = Aged(plane[w].leases)
  BY AgedGrant, Typed DEF Clock, PlaneRow
<1>4. ASSUME NEW w \in Worker, NEW c \in Call
      PROVE  /\ claim'[w][c] \in ClaimRow
             /\ claim'[w][c].stage = claim[w][c].stage
             /\ claim'[w][c].epoch = claim[w][c].epoch
             /\ claim'[w][c].grant = Aged(claim[w][c].grant)
  <2>1. claim[w][c] \in ClaimRow /\ Aged(claim[w][c].grant) \in Grants
    BY AgedGrant, Typed DEF ClaimRow
  <2>2. claim'[w][c] = [claim[w][c] EXCEPT !.grant = Aged(claim[w][c].grant)]
    BY DEF Clock
  <2> QED  BY <2>1, <2>2 DEF ClaimRow
<1>5. /\ lease' \in [Shard -> LeaseRow]
      /\ plane' \in [Worker -> PlaneRow]
  BY <1>2, <1>3 DEF Clock
<1>6. claim' \in [Worker -> [Call -> ClaimRow]]
  BY <1>4 DEF Clock
<1>7. UNCHANGED <<fleet, reload, undercut, upsets>>
  BY DEF Clock
<1> QED  BY <1>2, <1>3, <1>4, <1>5, <1>6, <1>7

\* What is left of a call of claimNow that is over.
LEMMA DoneEffect ==
    ASSUME LeaseTypeOK, NEW w \in Worker, NEW c \in Call, Done(w, c)
    PROVE  /\ claim' \in [Worker -> [Call -> ClaimRow]]
           /\ reload' \in [Worker -> ReloadRow]
           /\ claim'[w][c] = NoClaim
           /\ \A d \in Call \ {c} : claim'[w][d] = claim[w][d]
           /\ \A v \in Worker \ {w} : claim'[v] = claim[v] /\ reload'[v] = reload[v]
           /\ reload'[w] \in {reload[w], NoReload}
<1>1. NoClaim \in ClaimRow /\ NoReload \in ReloadRow
  BY GrantShape DEF NoClaim, NoReload, ClaimRow, ReloadRow
<1>2. claim \in [Worker -> [Call -> ClaimRow]] /\ reload \in [Worker -> ReloadRow]
  BY Typed
<1> QED  BY <1>1, <1>2 DEF Done

\* Every step keeps the shape of the table and of the planes' memory.
LEMMA TypeInductive ==
    ASSUME LeaseTypeOK, [LeaseNext]_leaseVars
    PROVE  LeaseTypeOK'
<1>a. None \in Grants /\ Free \in LeaseRow /\ TTL \in Left
  BY GrantShape, LeaseConstants DEF Free, LeaseRow, Left
<1> USE <1>a, Typed
<1>1. ASSUME FleetEdit PROVE LeaseTypeOK'
  BY <1>1 DEF FleetEdit, Upset
<1>2. ASSUME Clock PROVE LeaseTypeOK'
  BY <1>2, ClockEffect
<1>3. ASSUME NEW w \in Worker, Start(w) PROVE LeaseTypeOK'
  BY <1>3 DEF Start, NewPlane, NoClaim, PlaneRow, ClaimRow
<1>4. ASSUME NEW w \in Worker, Stop(w) PROVE LeaseTypeOK'
  BY <1>4, StopEffect
<1>5. ASSUME NEW w \in Worker, StopReleases(w) PROVE LeaseTypeOK'
  <2>1. plane' \in [Worker -> PlaneRow]
    BY <1>5 DEF StopReleases, PlaneRow
  <2>2. lease' \in [Shard -> LeaseRow]
    BY <1>5 DEF StopReleases, ReleaseShards
  <2> QED  BY <1>5, <2>1, <2>2 DEF StopReleases, Upset
<1>6. ASSUME NEW w \in Worker, PlaneDies(w) PROVE LeaseTypeOK'
  BY <1>6 DEF PlaneDies, Upset, NewPlane, NoClaim, NoReload, PlaneRow, ClaimRow, ReloadRow
<1>7. ASSUME NEW w \in Worker, ReloadReads(w) PROVE LeaseTypeOK'
  BY <1>7 DEF ReloadReads, NoReload, ReloadRow
<1>8. ASSUME NEW w \in Worker, ReloadAbandons(w) PROVE LeaseTypeOK'
  BY <1>8 DEF ReloadAbandons, Upset, NoReload, ReloadRow
<1>9. ASSUME NEW w \in Worker, ReloadClaims(w) PROVE LeaseTypeOK'
  <2>1. plane' \in [Worker -> PlaneRow]
    BY <1>9 DEF ReloadClaims, PlaneRow
  <2>2. reload' \in [Worker -> ReloadRow]
    BY <1>9 DEF ReloadClaims, ReloadRow
  <2>3. [NoClaim EXCEPT !.stage = "sent", !.epoch = plane[w].epoch] \in ClaimRow
    BY DEF NoClaim, ClaimRow, PlaneRow
  <2>4. claim' \in [Worker -> [Call -> ClaimRow]]
    BY <1>9, <2>3 DEF ReloadClaims, Begin
  <2> QED  BY <1>9, <2>1, <2>2, <2>4 DEF ReloadClaims
<1>10. ASSUME NEW w \in Worker, ReloadContent(w) PROVE LeaseTypeOK'
  BY <1>10 DEF ReloadContent, NoReload, PlaneRow, ReloadRow
<1>11. ASSUME NEW w \in Worker, ReloadIdles(w) PROVE LeaseTypeOK'
  BY <1>11, IdleEffect
<1>12. ASSUME NEW w \in Worker, ReloadReleases(w) PROVE LeaseTypeOK'
  <2>1. lease' \in [Shard -> LeaseRow]
    BY <1>12 DEF ReloadReleases, ReleaseShards
  <2> QED  BY <1>12, <2>1 DEF ReloadReleases, Upset, NoReload, ReloadRow
<1>13. ASSUME NEW w \in Worker, NEW c \in Call, ClaimShards(w, c)
      PROVE  LeaseTypeOK'
  <2>1. lease' \in [Shard -> LeaseRow]
    BY <1>13 DEF ClaimShards, LeaseRow
  <2>2. undercut' \in [Worker -> BOOLEAN]
    BY <1>13 DEF ClaimShards
  <2> QED  BY <1>13, <2>1, <2>2, ClaimEffect
<1>14. ASSUME NEW w \in Worker, NEW c \in Call, ClaimFails(w, c) PROVE LeaseTypeOK'
  BY <1>14, DoneEffect DEF ClaimFails, Upset
<1>15. ASSUME NEW w \in Worker, NEW c \in Call, ClaimNow(w, c) PROVE LeaseTypeOK'
  <2>1. claim[w][c].grant \in Grants
    BY DEF ClaimRow
  <2>2. plane' \in [Worker -> PlaneRow]
    BY <1>15, <2>1 DEF ClaimNow, PlaneRow
  <2> QED  BY <1>15, <2>2, DoneEffect DEF ClaimNow
<1>16. ASSUME NEW w \in Worker, NEW c \in Call, ClaimHandsBack(w, c)
      PROVE  LeaseTypeOK'
  <2>1. lease' \in [Shard -> LeaseRow]
    BY <1>16 DEF ClaimHandsBack, ReleaseShards
  <2>2. upsets' \in Nat
    BY <1>16 DEF ClaimHandsBack, Upset
  <2>3. undercut' \in [Worker -> BOOLEAN]
    BY <1>16 DEF ClaimHandsBack
  <2> QED  BY <1>16, <2>1, <2>2, <2>3, DoneEffect DEF ClaimHandsBack
<1>17. ASSUME NEW w \in Worker, NEW c \in Renewal, RenewLeases(w, c)
      PROVE  LeaseTypeOK'
  <2>1. [NoClaim EXCEPT !.stage = "sent", !.epoch = plane[w].epoch] \in ClaimRow
    BY DEF NoClaim, ClaimRow, PlaneRow
  <2>2. claim' \in [Worker -> [Call -> ClaimRow]]
    BY <1>17, <2>1 DEF RenewLeases, Begin, Call
  <2> QED  BY <1>17, <2>2 DEF RenewLeases
<1>18. CASE UNCHANGED leaseVars
  BY <1>18 DEF leaseVars
<1> QED
  BY <1>1, <1>2, <1>3, <1>4, <1>5, <1>6, <1>7, <1>8, <1>9, <1>10, <1>11, <1>12,
     <1>13, <1>14, <1>15, <1>16, <1>17, <1>18
  DEF LeaseNext, ReloadStep, ClaimNowStep

\* A plane stops, then is down, and its reloads are over before that.
LEMMA LifeInductive ==
    ASSUME LeaseTypeOK, PlaneLife, [LeaseNext]_leaseVars
    PROVE  PlaneLife'
<1>t. \A w \in Worker :
        /\ plane[w].epoch \in Nat /\ \A c \in Call : claim[w][c].epoch \in Nat
        /\ plane[w].up \in BOOLEAN /\ plane[w].stopping \in BOOLEAN
        /\ plane[w].wants \in BOOLEAN
  BY DEF LeaseTypeOK
<1>1. ASSUME FleetEdit PROVE PlaneLife'
  BY <1>1 DEF FleetEdit, LeaseTypeOK, PlaneLife
<1>2. ASSUME Clock PROVE PlaneLife'
  BY <1>2, ClockEffect, <1>t DEF PlaneLife
<1>3. ASSUME NEW w \in Worker, Start(w) PROVE PlaneLife'
  BY <1>3 DEF Start, LeaseTypeOK, PlaneLife, NewPlane
<1>4. ASSUME NEW w \in Worker, Stop(w) PROVE PlaneLife'
  BY <1>4, StopEffect, <1>t DEF PlaneLife
<1>5. ASSUME NEW w \in Worker, StopReleases(w) PROVE PlaneLife'
  BY <1>5 DEF StopReleases, LeaseTypeOK, PlaneLife
<1>6. ASSUME NEW w \in Worker, PlaneDies(w) PROVE PlaneLife'
  BY <1>6 DEF PlaneDies, LeaseTypeOK, PlaneLife, NewPlane, NoReload
<1>7. ASSUME NEW w \in Worker, ReloadReads(w) PROVE PlaneLife'
  BY <1>7 DEF ReloadReads, LeaseTypeOK, PlaneLife, NoReload
<1>8. ASSUME NEW w \in Worker, ReloadAbandons(w) PROVE PlaneLife'
  BY <1>8 DEF ReloadAbandons, LeaseTypeOK, PlaneLife, NoReload
<1>9. ASSUME NEW w \in Worker, ReloadClaims(w) PROVE PlaneLife'
  BY <1>9 DEF ReloadClaims, Begin, LeaseTypeOK, PlaneLife
<1>10. ASSUME NEW w \in Worker, ReloadContent(w) PROVE PlaneLife'
  BY <1>10 DEF ReloadContent, LeaseTypeOK, PlaneLife, NoReload
<1>11. ASSUME NEW w \in Worker, ReloadIdles(w) PROVE PlaneLife'
  BY <1>11, IdleEffect, <1>t DEF PlaneLife
<1>12. ASSUME NEW w \in Worker, ReloadReleases(w) PROVE PlaneLife'
  BY <1>12 DEF ReloadReleases, LeaseTypeOK, PlaneLife, NoReload
<1>13. ASSUME NEW w \in Worker, NEW c \in Call, ClaimShards(w, c)
      PROVE  PlaneLife'
  BY <1>13, ClaimEffect, <1>t DEF PlaneLife
<1>14. ASSUME NEW w \in Worker, NEW c \in Call, ClaimFails(w, c)
      PROVE  PlaneLife'
  BY <1>14, DoneEffect, <1>t DEF ClaimFails, PlaneLife, NoReload
<1>15. ASSUME NEW w \in Worker, NEW c \in Call, ClaimNow(w, c)
      PROVE  PlaneLife'
  BY <1>15, DoneEffect, <1>t DEF ClaimNow, PlaneLife, NoReload
<1>16. ASSUME NEW w \in Worker, NEW c \in Call, ClaimHandsBack(w, c)
      PROVE  PlaneLife'
  BY <1>16, DoneEffect, <1>t DEF ClaimHandsBack, PlaneLife, NoReload
<1>17. ASSUME NEW w \in Worker, NEW c \in Renewal, RenewLeases(w, c)
      PROVE  PlaneLife'
  BY <1>17 DEF RenewLeases, Begin, LeaseTypeOK, PlaneLife
<1>18. CASE UNCHANGED leaseVars
  BY <1>18 DEF leaseVars, PlaneLife
<1> QED
  BY <1>1, <1>2, <1>3, <1>4, <1>5, <1>6, <1>7, <1>8, <1>9, <1>10, <1>11, <1>12,
     <1>13, <1>14, <1>15, <1>16, <1>17, <1>18
  DEF LeaseNext, ReloadStep, ClaimNowStep

\* A claim is of the epoch it was sent in, which handing shards back ends.
LEMMA EpochsInductive ==
    ASSUME LeaseTypeOK, PlaneLife, DroppedFirst, EpochsPast, [LeaseNext]_leaseVars
    PROVE  EpochsPast'
<1>t. \A w \in Worker :
        /\ plane[w].epoch \in Nat /\ \A c \in Call : claim[w][c].epoch \in Nat
        /\ plane[w].up \in BOOLEAN /\ plane[w].stopping \in BOOLEAN
        /\ plane[w].wants \in BOOLEAN
  BY DEF LeaseTypeOK
<1>1. ASSUME FleetEdit PROVE EpochsPast'
  BY <1>1 DEF FleetEdit, LeaseTypeOK, EpochsPast
<1>2. ASSUME Clock PROVE EpochsPast'
  <2> SUFFICES ASSUME NEW v \in Worker, NEW d \in Call, claim'[v][d].stage # "none"
               PROVE  /\ claim'[v][d].epoch <= plane'[v].epoch
                      /\ ~ plane'[v].up => claim'[v][d].epoch # plane'[v].epoch
                      /\ reload'[v].stage = "releasing" =>
                            claim'[v][d].epoch # plane'[v].epoch
    BY DEF EpochsPast
  <2> QED  BY <1>2, <1>t, ClockEffect DEF EpochsPast
<1>3. ASSUME NEW w \in Worker, Start(w) PROVE EpochsPast'
  BY <1>3 DEF Start, LeaseTypeOK, PlaneLife, EpochsPast, NewPlane, NoClaim
<1>4. ASSUME NEW w \in Worker, Stop(w) PROVE EpochsPast'
  <2> SUFFICES ASSUME NEW v \in Worker, NEW d \in Call, claim'[v][d].stage # "none"
               PROVE  /\ claim'[v][d].epoch <= plane'[v].epoch
                      /\ ~ plane'[v].up => claim'[v][d].epoch # plane'[v].epoch
                      /\ reload'[v].stage = "releasing" =>
                            claim'[v][d].epoch # plane'[v].epoch
    BY DEF EpochsPast
  <2>1. CASE v = w
    BY <1>4, <1>t, <2>1, StopEffect DEF EpochsPast, NoReload, NoClaim
  <2>2. CASE v # w
    BY <1>4, <1>t, <2>2, StopEffect DEF EpochsPast, LeaseTypeOK
  <2> QED  BY <2>1, <2>2
<1>5. ASSUME NEW w \in Worker, StopReleases(w) PROVE EpochsPast'
  BY <1>5 DEF StopReleases, LeaseTypeOK, EpochsPast
<1>6. ASSUME NEW w \in Worker, PlaneDies(w) PROVE EpochsPast'
  BY <1>6 DEF PlaneDies, LeaseTypeOK, EpochsPast, NewPlane, NoReload, NoClaim
<1>7. ASSUME NEW w \in Worker, ReloadReads(w) PROVE EpochsPast'
  BY <1>7 DEF ReloadReads, LeaseTypeOK, EpochsPast, NoReload
<1>8. ASSUME NEW w \in Worker, ReloadAbandons(w) PROVE EpochsPast'
  BY <1>8 DEF ReloadAbandons, LeaseTypeOK, EpochsPast, NoReload
<1>9. ASSUME NEW w \in Worker, ReloadClaims(w) PROVE EpochsPast'
  BY <1>9 DEF ReloadClaims, Begin, LeaseTypeOK, EpochsPast, NoClaim
<1>10. ASSUME NEW w \in Worker, ReloadContent(w) PROVE EpochsPast'
  BY <1>10 DEF ReloadContent, LeaseTypeOK, EpochsPast, NoReload
<1>11. ASSUME NEW w \in Worker, ReloadIdles(w) PROVE EpochsPast'
  <2> SUFFICES ASSUME NEW v \in Worker, NEW d \in Call, claim'[v][d].stage # "none"
               PROVE  /\ claim'[v][d].epoch <= plane'[v].epoch
                      /\ ~ plane'[v].up => claim'[v][d].epoch # plane'[v].epoch
                      /\ reload'[v].stage = "releasing" =>
                            claim'[v][d].epoch # plane'[v].epoch
    BY DEF EpochsPast
  <2>1. CASE v = w
    BY <1>11, <1>t, <2>1, IdleEffect DEF EpochsPast, NoReload, NoClaim
  <2>2. CASE v # w
    BY <1>11, <1>t, <2>2, IdleEffect DEF EpochsPast, LeaseTypeOK
  <2> QED  BY <2>1, <2>2
<1>12. ASSUME NEW w \in Worker, ReloadReleases(w) PROVE EpochsPast'
  BY <1>12 DEF ReloadReleases, LeaseTypeOK, EpochsPast, NoReload
<1>13. ASSUME NEW w \in Worker, NEW c \in Call, ClaimShards(w, c)
      PROVE  EpochsPast'
  <2>1. /\ UNCHANGED <<plane, reload>>
        /\ \A v \in Worker, d \in Call :
              /\ claim'[v][d].epoch = claim[v][d].epoch
              /\ claim'[v][d].stage # "none" => claim[v][d].stage # "none"
    <3>1. UNCHANGED <<plane, reload>>
      BY <1>13 DEF ClaimShards
    <3>2. /\ claim[w][c].stage = "sent" /\ claim'[w][c].epoch = claim[w][c].epoch
          /\ \A d \in Call \ {c} : claim'[w][d] = claim[w][d]
          /\ \A v \in Worker \ {w} : claim'[v] = claim[v]
      BY <1>13, ClaimEffect
    <3> QED  BY <3>1, <3>2
  <2> QED  BY <2>1 DEF EpochsPast
<1>14. ASSUME NEW w \in Worker, NEW c \in Call, ClaimFails(w, c)
      PROVE  EpochsPast'
  <2> SUFFICES ASSUME NEW v \in Worker, NEW d \in Call, claim'[v][d].stage # "none"
               PROVE  /\ claim'[v][d].epoch <= plane'[v].epoch
                      /\ ~ plane'[v].up => claim'[v][d].epoch # plane'[v].epoch
                      /\ reload'[v].stage = "releasing" =>
                            claim'[v][d].epoch # plane'[v].epoch
    BY DEF EpochsPast
  <2>1. CASE v = w
    BY <1>14, <1>t, <2>1, DoneEffect DEF ClaimFails, EpochsPast, NoReload, NoClaim
  <2>2. CASE v # w
    BY <1>14, <1>t, <2>2, DoneEffect DEF ClaimFails, EpochsPast, LeaseTypeOK
  <2> QED  BY <2>1, <2>2
<1>15. ASSUME NEW w \in Worker, NEW c \in Call, ClaimNow(w, c)
      PROVE  EpochsPast'
  BY <1>15, DoneEffect, <1>t DEF ClaimNow, EpochsPast, NoReload, NoClaim
<1>16. ASSUME NEW w \in Worker, NEW c \in Call, ClaimHandsBack(w, c)
      PROVE  EpochsPast'
  BY <1>16, DoneEffect, <1>t DEF ClaimHandsBack, EpochsPast, NoReload, NoClaim
<1>17. ASSUME NEW w \in Worker, NEW c \in Renewal, RenewLeases(w, c)
      PROVE  EpochsPast'
  BY <1>17 DEF RenewLeases, Begin, LeaseTypeOK, DroppedFirst, EpochsPast, NoClaim, Call
<1>18. CASE UNCHANGED leaseVars
  BY <1>18 DEF leaseVars, EpochsPast
<1> QED
  BY <1>1, <1>2, <1>3, <1>4, <1>5, <1>6, <1>7, <1>8, <1>9, <1>10, <1>11, <1>12,
     <1>13, <1>14, <1>15, <1>16, <1>17, <1>18
  DEF LeaseNext, ReloadStep, ClaimNowStep

\* While a reload hands its shards back nothing is claimed or granted.
LEMMA DroppedInductive ==
    ASSUME LeaseTypeOK, PlaneLife, EpochsPast, DroppedFirst, [LeaseNext]_leaseVars
    PROVE  DroppedFirst'
<1>t. \A w \in Worker :
        /\ plane[w].epoch \in Nat /\ \A c \in Call : claim[w][c].epoch \in Nat
        /\ plane[w].up \in BOOLEAN /\ plane[w].stopping \in BOOLEAN
        /\ plane[w].wants \in BOOLEAN
  BY DEF LeaseTypeOK
<1>1. ASSUME FleetEdit PROVE DroppedFirst'
  BY <1>1 DEF FleetEdit, LeaseTypeOK, DroppedFirst
<1>2. ASSUME Clock PROVE DroppedFirst'
  <2>1. Aged(None) = None
    BY DEF Aged, None
  <2> QED  BY <1>2, <2>1, ClockEffect DEF DroppedFirst
<1>3. ASSUME NEW w \in Worker, Start(w) PROVE DroppedFirst'
  BY <1>3 DEF Start, LeaseTypeOK, PlaneLife, DroppedFirst, NewPlane
<1>4. ASSUME NEW w \in Worker, Stop(w) PROVE DroppedFirst'
  BY <1>4, StopEffect, <1>t DEF DroppedFirst
<1>5. ASSUME NEW w \in Worker, StopReleases(w) PROVE DroppedFirst'
  BY <1>5 DEF StopReleases, LeaseTypeOK, DroppedFirst
<1>6. ASSUME NEW w \in Worker, PlaneDies(w) PROVE DroppedFirst'
  BY <1>6 DEF PlaneDies, LeaseTypeOK, DroppedFirst, NewPlane, NoReload
<1>7. ASSUME NEW w \in Worker, ReloadReads(w) PROVE DroppedFirst'
  BY <1>7 DEF ReloadReads, LeaseTypeOK, DroppedFirst, NoReload
<1>8. ASSUME NEW w \in Worker, ReloadAbandons(w) PROVE DroppedFirst'
  BY <1>8 DEF ReloadAbandons, LeaseTypeOK, DroppedFirst, NoReload
<1>9. ASSUME NEW w \in Worker, ReloadClaims(w) PROVE DroppedFirst'
  BY <1>9 DEF ReloadClaims, Begin, LeaseTypeOK, DroppedFirst
<1>10. ASSUME NEW w \in Worker, ReloadContent(w) PROVE DroppedFirst'
  BY <1>10 DEF ReloadContent, LeaseTypeOK, DroppedFirst, NoReload
<1>11. ASSUME NEW w \in Worker, ReloadIdles(w) PROVE DroppedFirst'
  BY <1>11, IdleEffect, <1>t DEF DroppedFirst
<1>12. ASSUME NEW w \in Worker, ReloadReleases(w) PROVE DroppedFirst'
  BY <1>12 DEF ReloadReleases, LeaseTypeOK, DroppedFirst, NoReload
<1>13. ASSUME NEW w \in Worker, NEW c \in Call, ClaimShards(w, c)
      PROVE  DroppedFirst'
  <2>1. UNCHANGED <<plane, reload>>
    BY <1>13 DEF ClaimShards
  <2> QED  BY <2>1 DEF DroppedFirst
<1>14. ASSUME NEW w \in Worker, NEW c \in Call, ClaimFails(w, c)
      PROVE  DroppedFirst'
  BY <1>14, DoneEffect, <1>t DEF ClaimFails, DroppedFirst, NoReload
<1>15. ASSUME NEW w \in Worker, NEW c \in Call, ClaimNow(w, c)
      PROVE  DroppedFirst'
  BY <1>15, DoneEffect, <1>t DEF ClaimNow, EpochsPast, DroppedFirst, NoReload
<1>16. ASSUME NEW w \in Worker, NEW c \in Call, ClaimHandsBack(w, c)
      PROVE  DroppedFirst'
  BY <1>16, DoneEffect, <1>t DEF ClaimHandsBack, DroppedFirst, NoReload
<1>17. ASSUME NEW w \in Worker, NEW c \in Renewal, RenewLeases(w, c)
      PROVE  DroppedFirst'
  BY <1>17 DEF RenewLeases, Begin, LeaseTypeOK, DroppedFirst
<1>18. CASE UNCHANGED leaseVars
  BY <1>18 DEF leaseVars, DroppedFirst
<1> QED
  BY <1>1, <1>2, <1>3, <1>4, <1>5, <1>6, <1>7, <1>8, <1>9, <1>10, <1>11, <1>12,
     <1>13, <1>14, <1>15, <1>16, <1>17, <1>18
  DEF LeaseNext, ReloadStep, ClaimNowStep

\* A step that leaves a plane's memory and answers alone, and in the table what
\* is the plane's own and has not lapsed.
Kept(v) ==
    /\ undercut'[v] = undercut[v]
    /\ plane'[v].leases = plane[v].leases
    /\ \A c \in Call : Accepted(v, c)' => Accepted(v, c) /\ claim'[v][c] = claim[v][c]
    /\ \A s \in Shard :
          lease[s].owner = v /\ lease[s].left >= 0 => lease'[s] = lease[s]

\* A step after which a plane holds nothing and would accept nothing.
Emptied(v) ==
    /\ plane'[v].leases = None
    /\ \A c \in Call : ~ Accepted(v, c)'

\* What is kept stays backed while the lease table keeps its rows.
LEMMA KeptBacked ==
    ASSUME LeaseTypeOK, LeaseTypeOK', NEW v \in Worker, BackedFor(v), Kept(v)
    PROVE  BackedFor(v)'
<1>1. ASSUME NEW g \in Grants, Backs(v, g, lease) PROVE Backs(v, g, lease')
  <2> SUFFICES ASSUME NEW s \in DOMAIN g, g[s] >= 0
               PROVE  lease'[s].owner = v /\ lease'[s].left >= g[s]
    BY DEF Backs
  <2>1. s \in Shard /\ g[s] \in Int /\ lease[s].left \in Int
    BY GrantShape DEF LeaseTypeOK, Left
  <2>2. lease[s].owner = v /\ lease[s].left >= g[s]
    BY <1>1 DEF Backs
  <2>3. lease[s].left >= 0
    BY <2>1, <2>2
  <2> QED  BY <2>1, <2>2, <2>3 DEF Kept
<1>2. plane[v].leases \in Grants /\ \A c \in Call : claim[v][c].grant \in Grants
  BY DEF LeaseTypeOK
<1> QED  BY <1>1, <1>2 DEF BackedFor, Kept

\* A plane that holds nothing needs nothing to back it.
LEMMA EmptiedBacked ==
    ASSUME NEW v \in Worker, Emptied(v)
    PROVE  BackedFor(v)'
BY GrantShape DEF BackedFor, Emptied, Backs

\* Every step keeps what a plane holds or would accept in the lease table.
LEMMA BackedInductive ==
    ASSUME LeaseTypeOK, LeaseTypeOK', PlaneLife, EpochsPast, DroppedFirst, GrantsBacked, [LeaseNext]_leaseVars
    PROVE  GrantsBacked'
<1>t. \A w \in Worker :
        /\ plane[w].epoch \in Nat /\ \A c \in Call : claim[w][c].epoch \in Nat
        /\ plane[w].up \in BOOLEAN /\ plane[w].stopping \in BOOLEAN
        /\ plane[w].wants \in BOOLEAN
  BY DEF LeaseTypeOK
<1>1. ASSUME FleetEdit PROVE GrantsBacked'
  <2>1. UNCHANGED <<lease, undercut>>
    BY <1>1 DEF FleetEdit
  <2>2. \A v \in Worker : /\ plane'[v].leases = plane[v].leases
                          /\ plane'[v].epoch = plane[v].epoch
    BY <1>1, Typed DEF FleetEdit, PlaneRow
  <2>3. \A v \in Worker, d \in Call :
            claim'[v][d].stage = "answered" => claim'[v][d] = claim[v][d]
    BY <1>1, Typed DEF FleetEdit, NoClaim, Call
  <2>4. \A v \in Worker : Kept(v)
    BY <2>1, <2>2, <2>3 DEF Kept, Accepted
  <2> QED  BY <2>4, KeptBacked DEF GrantsBacked
<1>2. ASSUME Clock PROVE GrantsBacked'
  <2>1. ASSUME NEW v \in Worker, NEW g \in Grants, Backs(v, g, lease)
        PROVE  Backs(v, Aged(g), lease')
    <3> SUFFICES ASSUME NEW s \in DOMAIN g, Aged(g)[s] >= 0
                 PROVE  lease'[s].owner = v /\ lease'[s].left >= Aged(g)[s]
      BY AgedGrant DEF Backs
    <3>1. s \in Shard /\ g[s] \in Int /\ lease[s].left \in Int
      BY GrantShape DEF LeaseTypeOK, Left
    <3>2. Aged(g)[s] = Older(g[s], - Lag)
      BY AgedGrant
    <3>3. g[s] >= 0 /\ Older(g[s], - Lag) = g[s] - 1
      BY <3>1, <3>2, LeaseConstants DEF Older
    <3>4. lease[s].owner = v /\ lease[s].left >= g[s]
      BY <2>1, <3>3 DEF Backs
    <3>5. lease'[s].owner = v /\ lease'[s].left = Older(lease[s].left, -1)
      BY <1>2, <3>1, <3>4, ClockEffect
    <3> QED  BY <3>1, <3>2, <3>3, <3>4, <3>5 DEF Older
  <2> SUFFICES ASSUME NEW v \in Worker, ~ undercut'[v]
               PROVE  /\ Backs(v, plane'[v].leases, lease')
                      /\ \A c \in Call : Accepted(v, c)' => Backs(v, claim'[v][c].grant, lease')
    BY DEF GrantsBacked, BackedFor
  <2>2. ~ undercut[v] /\ plane[v].leases \in Grants /\ \A c \in Call : claim[v][c].grant \in Grants
    BY <1>2, ClockEffect DEF LeaseTypeOK
  <2>3. Backs(v, plane'[v].leases, lease')
    <3>1. Backs(v, plane[v].leases, lease)
      BY <2>2 DEF GrantsBacked, BackedFor
    <3> QED  BY <1>2, <2>1, <2>2, <3>1, ClockEffect
  <2>4. ASSUME NEW c \in Call, Accepted(v, c)' PROVE Backs(v, claim'[v][c].grant, lease')
    <3>1. Accepted(v, c)
      BY <1>2, <2>4, ClockEffect DEF Accepted
    <3>2. Backs(v, claim[v][c].grant, lease)
      BY <2>2, <3>1 DEF GrantsBacked, BackedFor
    <3> QED  BY <1>2, <2>1, <2>2, <3>2, ClockEffect
  <2> QED  BY <2>3, <2>4
<1>3. ASSUME NEW w \in Worker, Start(w) PROVE GrantsBacked'
  <2>1. \A v \in Worker \ {w} : Kept(v)
    BY <1>3 DEF Start, Kept, Accepted, LeaseTypeOK, NewPlane, NoClaim
  <2>2. Emptied(w)
    BY <1>3 DEF Start, Emptied, Accepted, LeaseTypeOK, NewPlane, NoClaim
  <2> QED  BY <2>1, <2>2, KeptBacked, EmptiedBacked DEF GrantsBacked
<1>4. ASSUME NEW w \in Worker, Stop(w) PROVE GrantsBacked'
  <2>1. \A v \in Worker \ {w} : Kept(v)
    BY <1>4, StopEffect DEF Kept, Accepted
  <2>2. \A d \in Call : ~ Accepted(w, d)'
    BY <1>4, StopEffect, <1>t DEF Accepted, EpochsPast
  <2>3. Kept(w)
    BY <1>4, <2>2, StopEffect DEF Kept
  <2> QED  BY <2>1, <2>3, KeptBacked DEF GrantsBacked
<1>5. ASSUME NEW w \in Worker, StopReleases(w) PROVE GrantsBacked'
  <2>1. \A v \in Worker \ {w} : Kept(v)
    BY <1>5 DEF StopReleases, ReleaseShards, Kept, Accepted
  <2>2. plane'[w].leases = None /\ plane'[w].epoch = plane[w].epoch /\ claim' = claim
    BY <1>5 DEF StopReleases, LeaseTypeOK
  <2>3. \A d \in Call : ~ Accepted(w, d)'
    BY <1>5, <2>2 DEF StopReleases, Accepted, EpochsPast, PlaneLife
  <2> QED  BY <2>1, <2>2, <2>3, KeptBacked, EmptiedBacked DEF GrantsBacked, Emptied
<1>6. ASSUME NEW w \in Worker, PlaneDies(w) PROVE GrantsBacked'
  <2>1. \A v \in Worker \ {w} : Kept(v)
    BY <1>6 DEF PlaneDies, Kept, Accepted, LeaseTypeOK, NewPlane, NoClaim
  <2>2. Emptied(w)
    BY <1>6 DEF PlaneDies, Emptied, Accepted, LeaseTypeOK, NewPlane, NoClaim
  <2> QED  BY <2>1, <2>2, KeptBacked, EmptiedBacked DEF GrantsBacked
<1>7. ASSUME NEW w \in Worker, ReloadReads(w) PROVE GrantsBacked'
  <2>1. UNCHANGED <<lease, undercut>>
    BY <1>7 DEF ReloadReads
  <2>2. \A v \in Worker : /\ plane'[v].leases = plane[v].leases
                          /\ plane'[v].epoch = plane[v].epoch
    BY <1>7, Typed DEF ReloadReads, PlaneRow
  <2>3. \A v \in Worker, d \in Call :
            claim'[v][d].stage = "answered" => claim'[v][d] = claim[v][d]
    BY <1>7, Typed DEF ReloadReads, NoClaim, Call
  <2>4. \A v \in Worker : Kept(v)
    BY <2>1, <2>2, <2>3 DEF Kept, Accepted
  <2> QED  BY <2>4, KeptBacked DEF GrantsBacked
<1>8. ASSUME NEW w \in Worker, ReloadAbandons(w) PROVE GrantsBacked'
  <2>1. UNCHANGED <<lease, undercut>>
    BY <1>8 DEF ReloadAbandons
  <2>2. \A v \in Worker : /\ plane'[v].leases = plane[v].leases
                          /\ plane'[v].epoch = plane[v].epoch
    BY <1>8, Typed DEF ReloadAbandons, PlaneRow
  <2>3. \A v \in Worker, d \in Call :
            claim'[v][d].stage = "answered" => claim'[v][d] = claim[v][d]
    BY <1>8, Typed DEF ReloadAbandons, NoClaim, Call
  <2>4. \A v \in Worker : Kept(v)
    BY <2>1, <2>2, <2>3 DEF Kept, Accepted
  <2> QED  BY <2>4, KeptBacked DEF GrantsBacked
<1>9. ASSUME NEW w \in Worker, ReloadClaims(w) PROVE GrantsBacked'
  <2>1. UNCHANGED <<lease, undercut>>
    BY <1>9 DEF ReloadClaims, Begin
  <2>2. \A v \in Worker : /\ plane'[v].leases = plane[v].leases
                          /\ plane'[v].epoch = plane[v].epoch
    BY <1>9, Typed DEF ReloadClaims, Begin, PlaneRow
  <2>3. \A v \in Worker, d \in Call :
            claim'[v][d].stage = "answered" => claim'[v][d] = claim[v][d]
    BY <1>9, Typed DEF ReloadClaims, Begin, NoClaim, Call
  <2>4. \A v \in Worker : Kept(v)
    BY <2>1, <2>2, <2>3 DEF Kept, Accepted
  <2> QED  BY <2>4, KeptBacked DEF GrantsBacked
<1>10. ASSUME NEW w \in Worker, ReloadContent(w) PROVE GrantsBacked'
  <2>1. UNCHANGED <<lease, undercut>>
    BY <1>10 DEF ReloadContent
  <2>2. \A v \in Worker : /\ plane'[v].leases = plane[v].leases
                          /\ plane'[v].epoch = plane[v].epoch
    BY <1>10, Typed DEF ReloadContent, PlaneRow
  <2>3. \A v \in Worker, d \in Call :
            claim'[v][d].stage = "answered" => claim'[v][d] = claim[v][d]
    BY <1>10, Typed DEF ReloadContent, NoClaim, Call
  <2>4. \A v \in Worker : Kept(v)
    BY <2>1, <2>2, <2>3 DEF Kept, Accepted
  <2> QED  BY <2>4, KeptBacked DEF GrantsBacked
<1>11. ASSUME NEW w \in Worker, ReloadIdles(w) PROVE GrantsBacked'
  <2>1. \A v \in Worker \ {w} : Kept(v)
    BY <1>11, IdleEffect DEF Kept, Accepted
  <2>2. \A d \in Call : ~ Accepted(w, d)'
    BY <1>11, IdleEffect, <1>t DEF Accepted, EpochsPast
  <2>3. Emptied(w)
    BY <1>11, <2>2, IdleEffect DEF Emptied
  <2> QED  BY <2>1, <2>3, KeptBacked, EmptiedBacked DEF GrantsBacked
<1>12. ASSUME NEW w \in Worker, ReloadReleases(w) PROVE GrantsBacked'
  <2>1. \A v \in Worker \ {w} : Kept(v)
    BY <1>12 DEF ReloadReleases, ReleaseShards, Kept, Accepted
  <2>2. \A d \in Call : ~ Accepted(w, d)'
    BY <1>12 DEF ReloadReleases, Accepted, EpochsPast
  <2>3. plane'[w].leases = None
    BY <1>12 DEF ReloadReleases, DroppedFirst
  <2> QED  BY <2>1, <2>2, <2>3, KeptBacked, EmptiedBacked DEF GrantsBacked, Emptied
<1>13. ASSUME NEW w \in Worker, NEW c \in Call, ClaimShards(w, c)
      PROVE  GrantsBacked'
  <2>1. \A s \in Shard : lease'[s] = IF s \in Granted(w) THEN [owner |-> w, left |-> TTL]
                                   ELSE lease[s]
    BY <1>13 DEF ClaimShards
  <2>2. /\ \A v \in Worker \ {w} : undercut'[v] = undercut[v] /\ claim'[v] = claim[v]
        /\ plane' = plane
        /\ ~ undercut'[w] => ~ undercut[w] \/ Granted(w) = Shard
    <3>1. \A v \in Worker \ {w} : claim'[v] = claim[v]
      BY <1>13, ClaimEffect
    <3>2. undercut' = [undercut EXCEPT ![w] = @ /\ Granted(w) # Shard] /\ plane' = plane
      BY <1>13 DEF ClaimShards
    <3>3. undercut \in [Worker -> BOOLEAN]
      BY DEF LeaseTypeOK
    <3> QED  BY <3>1, <3>2, <3>3
  <2>3. \A v \in Worker \ {w} : Kept(v)
    <3> SUFFICES ASSUME NEW v \in Worker \ {w} PROVE Kept(v)
      OBVIOUS
    <3>1. \A s \in Shard : lease[s].owner = v /\ lease[s].left >= 0 => lease'[s] = lease[s]
      <4> SUFFICES ASSUME NEW s \in Shard, lease[s].owner = v, lease[s].left >= 0
                   PROVE  s \notin Granted(w)
        BY <2>1
      <4>1. lease[s].left \in Int
        BY DEF LeaseTypeOK, Left
      <4>2. ~ Takeable(w, s)
        BY <4>1, LeaseConstants DEF Takeable
      <4> QED  BY <4>2 DEF Granted
    <3> QED  BY <2>2, <3>1 DEF Kept, Accepted
  <2>4. ASSUME NEW g \in Grants, Granted(w) = Shard \/ Backs(w, g, lease)
        PROVE  Backs(w, g, lease')
    <3> SUFFICES ASSUME NEW s \in DOMAIN g, g[s] >= 0
                 PROVE  lease'[s].owner = w /\ lease'[s].left >= g[s]
      BY DEF Backs
    <3>1. s \in Shard /\ g[s] \in Left
      BY GrantShape
    <3>2. CASE s \in Granted(w)
      BY <2>1, <3>1, <3>2, LeaseConstants DEF Left
    <3>3. CASE s \notin Granted(w)
      BY <2>1, <2>4, <3>1, <3>3 DEF Backs
    <3> QED  BY <3>2, <3>3
  <2>5. ASSUME ~ undercut'[w] PROVE Backs(w, plane'[w].leases, lease')
    <3>1. plane[w].leases \in Grants
      BY DEF LeaseTypeOK
    <3>2. Granted(w) = Shard \/ Backs(w, plane[w].leases, lease)
      BY <2>2, <2>5 DEF GrantsBacked, BackedFor
    <3> QED  BY <2>2, <2>4, <3>1, <3>2
  <2>6. ASSUME ~ undercut'[w], NEW d \in Call, Accepted(w, d)'
        PROVE  Backs(w, claim'[w][d].grant, lease')
    <3>1. CASE d = c
      <4>1. claim'[w][c].grant = [s \in Granted(w) |-> TTL]
        BY <1>13, ClaimEffect
      <4>2. Granted(w) \subseteq Shard /\ TTL >= 0 /\ TTL \in Int
        BY LeaseConstants DEF Granted
      <4>3. \A s \in Granted(w) : lease'[s].owner = w /\ lease'[s].left = TTL
        BY <2>1, <4>2
      <4>4. /\ DOMAIN claim'[w][c].grant = Granted(w)
            /\ \A s \in Granted(w) : claim'[w][c].grant[s] = TTL
        BY <4>1
      <4> QED  BY <3>1, <4>2, <4>3, <4>4 DEF Backs
    <3>2. CASE d # c
      <4>0. \A k \in Call \ {c} : claim'[w][k] = claim[w][k]
        BY <1>13, ClaimEffect
      <4>1. claim'[w][d] = claim[w][d]
        BY <3>2, <4>0
      <4>2. Accepted(w, d) /\ claim[w][d].grant \in Grants
        BY <2>2, <2>6, <4>1 DEF Accepted, LeaseTypeOK
      <4>3. Granted(w) = Shard \/ Backs(w, claim[w][d].grant, lease)
        BY <2>2, <2>6, <4>2 DEF GrantsBacked, BackedFor
      <4> QED  BY <2>4, <4>1, <4>2, <4>3
    <3> QED  BY <3>1, <3>2
  <2>7. BackedFor(w)'
    BY <2>5, <2>6 DEF BackedFor
  <2> QED  BY <2>3, <2>7, KeptBacked DEF GrantsBacked
<1>14. ASSUME NEW w \in Worker, NEW c \in Call, ClaimFails(w, c)
      PROVE  GrantsBacked'
  <2>1. UNCHANGED <<lease, plane, undercut>>
    BY <1>14 DEF ClaimFails
  <2>2. \A v \in Worker, d \in Call :
            claim'[v][d].stage = "answered" => claim'[v][d] = claim[v][d]
    BY <1>14, DoneEffect DEF ClaimFails, NoClaim
  <2>3. \A v \in Worker : Kept(v)
    BY <2>1, <2>2 DEF Kept, Accepted
  <2> QED  BY <2>3, KeptBacked DEF GrantsBacked
<1>15. ASSUME NEW w \in Worker, NEW c \in Call, ClaimNow(w, c)
      PROVE  GrantsBacked'
  <2>1. UNCHANGED <<lease, undercut>> /\ Accepted(w, c)
    BY <1>15 DEF ClaimNow, Accepted
  <2>2. /\ plane'[w].leases = claim[w][c].grant /\ plane'[w].epoch = plane[w].epoch
        /\ \A v \in Worker \ {w} : plane'[v] = plane[v]
    BY <1>15 DEF ClaimNow, LeaseTypeOK
  <2>3. \A v \in Worker, d \in Call :
            claim'[v][d].stage = "answered" => claim'[v][d] = claim[v][d]
    BY <1>15, DoneEffect DEF ClaimNow, NoClaim
  <2>4. \A v \in Worker \ {w} : Kept(v)
    BY <2>1, <2>2, <2>3 DEF Kept, Accepted
  <2>5. BackedFor(w) => BackedFor(w)'
    BY <2>1, <2>2, <2>3 DEF BackedFor, Accepted
  <2> QED  BY <2>4, <2>5, KeptBacked DEF GrantsBacked
<1>16. ASSUME NEW w \in Worker, NEW c \in Call, ClaimHandsBack(w, c)
      PROVE  GrantsBacked'
  <2>1. /\ plane' = plane
        /\ \A s \in Shard : lease[s].owner # w => lease'[s] = lease[s]
        /\ \A v \in Worker \ {w} : undercut'[v] = undercut[v]
        /\ ~ Accepted(w, c)
    BY <1>16 DEF ClaimHandsBack, ReleaseShards, Accepted, LeaseTypeOK
  <2>2. \A v \in Worker, d \in Call :
            claim'[v][d].stage = "answered" => claim'[v][d] = claim[v][d]
    BY <1>16, DoneEffect DEF ClaimHandsBack, NoClaim
  <2>3. \A v \in Worker \ {w} : Kept(v)
    BY <2>1, <2>2 DEF Kept, Accepted
  <2>4. CASE UNCHANGED <<lease, undercut>>
    <3>1. Kept(w)
      BY <2>1, <2>2, <2>4 DEF Kept, Accepted
    <3> QED  BY <2>3, <3>1, KeptBacked DEF GrantsBacked
  <2>5. CASE undercut'[w]
    BY <2>3, <2>5, KeptBacked DEF GrantsBacked, BackedFor
  <2>6. CASE /\ plane[w].leases = None
             /\ \A d \in Call \ {c} : claim[w][d].stage # "answered"
    <3>1. \A d \in Call : ~ Accepted(w, d)'
      <4>1. claim'[w][c].stage # "answered"
        BY <1>16, DoneEffect DEF ClaimHandsBack, NoClaim
      <4> QED  BY <2>2, <2>6, <4>1 DEF Accepted
    <3> QED  BY <2>1, <2>3, <2>6, <3>1, KeptBacked, EmptiedBacked DEF GrantsBacked, Emptied
  <2> QED  BY <1>16, <2>4, <2>5, <2>6 DEF ClaimHandsBack, LeaseTypeOK
<1>17. ASSUME NEW w \in Worker, NEW c \in Renewal, RenewLeases(w, c)
      PROVE  GrantsBacked'
  <2>1. UNCHANGED <<lease, undercut>>
    BY <1>17 DEF RenewLeases, Begin
  <2>2. \A v \in Worker : /\ plane'[v].leases = plane[v].leases
                          /\ plane'[v].epoch = plane[v].epoch
    BY <1>17, Typed DEF RenewLeases, Begin, PlaneRow
  <2>3. \A v \in Worker, d \in Call :
            claim'[v][d].stage = "answered" => claim'[v][d] = claim[v][d]
    BY <1>17, Typed DEF RenewLeases, Begin, NoClaim, Call
  <2>4. \A v \in Worker : Kept(v)
    BY <2>1, <2>2, <2>3 DEF Kept, Accepted
  <2> QED  BY <2>4, KeptBacked DEF GrantsBacked
<1>18. CASE UNCHANGED leaseVars
  BY <1>18 DEF leaseVars, GrantsBacked, BackedFor, Accepted
<1> QED
  BY <1>1, <1>2, <1>3, <1>4, <1>5, <1>6, <1>7, <1>8, <1>9, <1>10, <1>11, <1>12,
     <1>13, <1>14, <1>15, <1>16, <1>17, <1>18
  DEF LeaseNext, ReloadStep, ClaimNowStep

\* Every step keeps the invariant.
LEMMA NextInv == LeaseInv /\ [LeaseNext]_leaseVars => LeaseInv'
BY TypeInductive, LifeInductive, EpochsInductive, DroppedInductive, BackedInductive
   DEF LeaseInv

\* The epochs, and with them the grants of the planes, stay as claimNow, stop
\* and the reload need them.
THEOREM LeaseInvariant == LeaseSpec => []LeaseInv
<1> QED  BY InitInv, NextInv, PTL DEF LeaseSpec

\* The lease table and the planes' memory keep their shape.
THEOREM LeaseTypeCorrect == LeaseSpec => []LeaseTypeOK
<1>1. LeaseInv => LeaseTypeOK
  BY DEF LeaseInv
<1> QED  BY <1>1, LeaseInvariant, PTL

\* The property is a part of what the invariant says.
LEMMA InvImpliesBacked == LeaseInv => MemoryBacked
<1> SUFFICES ASSUME LeaseInv, NEW w \in Worker, NEW s \in MayProbe(w) \ Overrun(w),
                    ~ undercut[w]
             PROVE  lease[s].owner = w /\ lease[s].left >= plane[w].leases[s]
  BY DEF MemoryBacked
<1>1. s \in DOMAIN plane[w].leases /\ ~ plane[w].leases[s] < 0
  BY DEF MayProbe, Held, Overrun
<1>2. plane[w].leases[s] \in Int
  BY <1>1, GrantShape, LeaseConstants DEF LeaseInv, LeaseTypeOK, Left
<1>3. Backs(w, plane[w].leases, lease)
  BY DEF LeaseInv, GrantsBacked, BackedFor
<1> QED  BY <1>1, <1>2, <1>3 DEF Backs

\* tick() fences on memory, every other plane on the table: until the database
\* lets the grant lapse, a shard a plane believes it holds is its own in the
\* table, for at least as long, whatever the clocks.
THEOREM MemorySafe == LeaseSpec => []MemoryBacked
<1> QED  BY LeaseInvariant, InvImpliesBacked, PTL

(* Whatever was in flight when a plane went idle, stopped, died or lost an *)
(* answer, two workers may probe a shard only while the clock of one of    *)
(* them, behind the database's, hides from it that its grant has lapsed,   *)
(* or after one has handed back a stale grant over its own newer one.      *)
THEOREM ProbeSafe == LeaseSpec => []ProbeExclusive
<1>1. MemoryBacked => ProbeExclusive
  BY DEF MemoryBacked, ProbeExclusive
<1> QED  BY <1>1, MemorySafe, PTL

\* With no clock behind the database's, clocks apart produce no second owner: the
\* lapse of a grant is then never hidden from the worker it was given to.
THEOREM AheadSafe ==
    ASSUME \A w \in Worker : Skew[w] >= 0
    PROVE  LeaseSpec => []OneOwner
<1>1. LeaseInv /\ ProbeExclusive => OneOwner
  <2> SUFFICES ASSUME LeaseInv, ProbeExclusive, NEW w \in Worker PROVE Overrun(w) = {}
    BY DEF ProbeExclusive, OneOwner
  <2> SUFFICES ASSUME NEW s \in MayProbe(w), plane[w].leases[s] < 0 PROVE FALSE
    BY DEF Overrun
  <2>1. s \in DOMAIN plane[w].leases /\ plane[w].leases[s] > Skew[w]
    BY DEF MayProbe, Held
  <2>2. plane[w].leases[s] \in Int /\ Skew[w] \in Int /\ Skew[w] >= 0
    BY <2>1, GrantShape, LeaseConstants DEF LeaseInv, LeaseTypeOK, Left
  <2> QED  BY <2>1, <2>2
<1> QED  BY <1>1, LeaseInvariant, ProbeSafe, PTL

-----------------------------------------------------------------------------
(* The ledger *)

\* nextHlc is a clock: whatever the wall clock says, and with the counter of the
\* millisecond exhausted, it moves forward.
LEMMA HlcAdvances ==
    ASSUME NEW previous \in Nat, NEW now \in Nat
    PROVE  NextHlc(previous, now) \in Nat /\ NextHlc(previous, now) > previous
<1> DEFINE q == Physical(previous)
           r == Counter(previous)
<1>1. CounterBase \in Nat \ {0}
  BY LedgerConstants
<1>2. /\ q \in Nat /\ r \in Nat
      /\ previous = q * CounterBase + r /\ r < CounterBase
  BY <1>1 DEF Physical, Counter
<1> HIDE DEF q, r
<1>3. ASSUME NEW n \in Nat, n > q
      PROVE  n * CounterBase \in Nat /\ n * CounterBase > previous
  <2>1. PICK d \in Nat : n = q + 1 + d
    <3>1. n - q - 1 \in Nat /\ n = q + 1 + (n - q - 1)
      BY <1>2, <1>3
    <3> QED  BY <3>1
  <2>2. n * CounterBase = q * CounterBase + CounterBase + d * CounterBase
    BY <1>1, <1>2, <2>1
  <2>3. d * CounterBase \in Nat /\ q * CounterBase \in Nat
    BY <1>1, <1>2
  <2> QED  BY <1>1, <1>2, <2>2, <2>3
<1>4. CASE now > q
  BY <1>1, <1>3, <1>4 DEF NextHlc, EncodeHlc, q
<1>5. CASE ~ (now > q) /\ r >= CounterBase - 1
  <2>1. NextHlc(previous, now) = (q + 1) * CounterBase + 0
    BY <1>5 DEF NextHlc, EncodeHlc, q, r
  <2>2. q + 1 \in Nat /\ q + 1 > q
    BY <1>2
  <2> QED  BY <1>1, <1>3, <2>1, <2>2
<1>6. CASE ~ (now > q) /\ ~ (r >= CounterBase - 1)
  <2>1. NextHlc(previous, now) = q * CounterBase + (r + 1)
    BY <1>6 DEF NextHlc, EncodeHlc, q, r
  <2>2. q * CounterBase \in Nat
    BY <1>1, <1>2
  <2> QED  BY <1>1, <1>2, <2>1, <2>2
<1> QED  BY <1>4, <1>5, <1>6

-----------------------------------------------------------------------------
\* The transactions that hold the lock on the actor's row.
Holds(w) == tx[w].stage \in {"advanced", "stamped"}

\* A transaction is a record of its fields.
IsTx(t) == t = [stage |-> t.stage, now |-> t.now, row |-> t.row, fact |-> t.fact]

\* The committed rows and the transactions are records of their fields.
Recorded ==
    /\ actor = [seq |-> actor.seq, hlc |-> actor.hlc, head |-> actor.head]
    /\ tx = [w \in Writer |-> tx[w]]
    /\ \A w \in Writer : IsTx(tx[w])
    /\ facts \in Seq({facts[i] : i \in DOMAIN facts})

\* At most one transaction is inside stampFact.
OneHolder == \A v, w \in Writer : Holds(v) /\ Holds(w) => v = w

\* The row of the actor is the last fact's: its sequence, its clock, its hash.
ActorIsLast ==
    facts # <<>> => /\ actor.hlc = facts[Len(facts)].hlc
                    /\ actor.head = facts[Len(facts)].hash

\* Facts are numbered as they were committed.
Numbered == \A i \in DOMAIN facts : facts[i].seq = i

\* A fact that extends the chain whose actor has row a.
Follows(f, a) ==
    /\ f.hash = FactHash(f)
    /\ f.prev = a.head
    /\ f.seq = a.seq + 1
    /\ f.hlc \in Nat /\ f.hlc > a.hlc

\* What a transaction in stampFact read of the actor is still what is committed,
\* and what it is about to commit follows on from it.
RowCurrent ==
    \A w \in Writer :
        /\ tx[w].stage = "advanced" =>
             tx[w].row = [seq |-> actor.seq + 1, hlc |-> actor.hlc, head |-> actor.head]
        /\ tx[w].stage = "stamped" =>
             /\ Follows(tx[w].fact, actor)
             /\ tx[w].row = [seq |-> tx[w].fact.seq, hlc |-> tx[w].fact.hlc,
                             head |-> tx[w].fact.hash]

\* The inductive invariant.
LedgerInv ==
    /\ LedgerTypeOK
    /\ Recorded
    /\ OneHolder
    /\ ActorIsLast
    /\ Numbered
    /\ RowCurrent
    /\ VerifyChain(facts)

-----------------------------------------------------------------------------
\* The empty chain is valid.
LEMMA LedgerInitInv == LedgerInit => LedgerInv
<1> SUFFICES ASSUME LedgerInit PROVE LedgerInv
  OBVIOUS
<1> USE LedgerConstants DEF LedgerInit, NoTx
<1>1. facts = <<>> /\ DOMAIN facts = {} /\ Len(facts) = 0
  OBVIOUS
<1>2. LedgerTypeOK
  BY <1>1 DEF LedgerTypeOK
<1>3. Recorded
  BY <1>1 DEF Recorded, IsTx
<1>4. OneHolder /\ RowCurrent
  BY DEF OneHolder, Holds, RowCurrent
<1>5. ActorIsLast /\ Numbered /\ VerifyChain(facts)
  BY <1>1 DEF ActorIsLast, Numbered, VerifyChain
<1> QED  BY <1>2, <1>3, <1>4, <1>5 DEF LedgerInv

\* How a transaction's record is rewritten as it begins,
LEMMA TxBegun ==
    ASSUME NEW q, IsTx(q), NEW t, NEW m
    PROVE  [q EXCEPT !.stage = t, !.now = m]
             = [stage |-> t, now |-> m, row |-> q.row, fact |-> q.fact]
<1> DEFINE T == [stage : {q.stage, t}, now : {q.now, m},
                 row : {q.row}, fact : {q.fact}]
           x == [q EXCEPT !.stage = t, !.now = m]
<1>1. q \in T
  BY DEF IsTx
<1>2. x \in T /\ x.stage = t /\ x.now = m /\ x.row = q.row /\ x.fact = q.fact
  BY <1>1
<1>3. \A r \in T : r = [stage |-> r.stage, now |-> r.now, row |-> r.row, fact |-> r.fact]
  OBVIOUS
<1>4. x = [stage |-> t, now |-> m, row |-> q.row, fact |-> q.fact]
  <2> HIDE DEF T, x
  <2> QED  BY <1>2, <1>3
<1> QED  BY <1>4

\* as it advances the actor's row,
LEMMA TxAdvanced ==
    ASSUME NEW q, IsTx(q), NEW t, NEW b
    PROVE  [q EXCEPT !.stage = t, !.row = b]
             = [stage |-> t, now |-> q.now, row |-> b, fact |-> q.fact]
<1> DEFINE T == [stage : {q.stage, t}, now : {q.now},
                 row : {q.row, b}, fact : {q.fact}]
           x == [q EXCEPT !.stage = t, !.row = b]
<1>1. q \in T
  BY DEF IsTx
<1>2. x \in T /\ x.stage = t /\ x.now = q.now /\ x.row = b /\ x.fact = q.fact
  BY <1>1
<1>3. \A r \in T : r = [stage |-> r.stage, now |-> r.now, row |-> r.row, fact |-> r.fact]
  OBVIOUS
<1>4. x = [stage |-> t, now |-> q.now, row |-> b, fact |-> q.fact]
  <2> HIDE DEF T, x
  <2> QED  BY <1>2, <1>3
<1> QED  BY <1>4

\* and as it stamps a fact.
LEMMA TxStamped ==
    ASSUME NEW q, IsTx(q), NEW t, NEW g, NEW b
    PROVE  [q EXCEPT !.stage = t, !.fact = g, !.row = b]
             = [stage |-> t, now |-> q.now, row |-> b, fact |-> g]
<1> DEFINE T == [stage : {q.stage, t}, now : {q.now},
                 row : {q.row, b}, fact : {q.fact, g}]
           x == [q EXCEPT !.stage = t, !.fact = g, !.row = b]
<1>1. q \in T
  BY DEF IsTx
<1>2. x \in T /\ x.stage = t /\ x.now = q.now /\ x.row = b /\ x.fact = g
  BY <1>1
<1>3. \A r \in T : r = [stage |-> r.stage, now |-> r.now, row |-> r.row, fact |-> r.fact]
  OBVIOUS
<1>4. x = [stage |-> t, now |-> q.now, row |-> b, fact |-> g]
  <2> HIDE DEF T, x
  <2> QED  BY <1>2, <1>3
<1> QED  BY <1>4

\* A step that changes one transaction's record and nothing committed.
LEMMA TxChanged ==
    ASSUME LedgerInv, NEW w \in Writer, NEW q,
           tx' = [tx EXCEPT ![w] = q],
           IsTx(q),
           q.stage \in {"none", "begun", "advanced", "stamped"},
           q.now \in 0 .. MaxClock,
           q.stage \in {"advanced", "stamped"} =>
               Holds(w) \/ \A v \in Writer : ~ Holds(v),
           q.stage = "advanced" =>
               q.row = [seq |-> actor.seq + 1, hlc |-> actor.hlc, head |-> actor.head],
           q.stage = "stamped" =>
               /\ Follows(q.fact, actor)
               /\ q.row = [seq |-> q.fact.seq, hlc |-> q.fact.hlc, head |-> q.fact.hash],
           UNCHANGED <<clock, actor, facts>>
    PROVE  LedgerInv'
<1> USE DEF LedgerInv
<1>1. tx = [v \in Writer |-> tx[v]]
  BY DEF Recorded
<1>2. tx'[w] = q /\ \A v \in Writer \ {w} : tx'[v] = tx[v]
  BY <1>1
<1>3. LedgerTypeOK'
  BY <1>2 DEF LedgerTypeOK
<1>4. Recorded'
  <2>1. \A v \in Writer : IsTx(tx'[v])
    BY <1>2 DEF Recorded
  <2>2. tx' = [v \in Writer |-> tx'[v]]
    BY <1>1
  <2> QED  BY <2>1, <2>2 DEF Recorded
<1>5. OneHolder'
  BY <1>2 DEF OneHolder, Holds
<1>6. RowCurrent'
  BY <1>2 DEF RowCurrent
<1>7. (ActorIsLast /\ Numbered /\ VerifyChain(facts))'
  BY DEF ActorIsLast, Numbered
<1> QED  BY <1>3, <1>4, <1>5, <1>6, <1>7

\* The fact stampFact writes: it is hashed over what it holds, it follows the row
\* it was read from.
LEMMA StampedFollows ==
    ASSUME NEW a, a.seq \in Nat, a.hlc \in Nat, NEW now \in Nat, NEW v, NEW row,
           row = [seq |-> a.seq + 1, hlc |-> a.hlc, head |-> a.head]
    PROVE  Follows(Stamped(row, now, v), a)
<1> DEFINE n == NextHlc(row.hlc, now)
           f == [seq |-> row.seq, hlc |-> n, prev |-> row.head, at |-> now, verdict |-> v]
           g == Stamped(row, now, v)
<1>1. row.seq = a.seq + 1 /\ row.hlc = a.hlc /\ row.head = a.head
  OBVIOUS
<1>2. n \in Nat /\ n > a.hlc
  BY <1>1, HlcAdvances
<1> HIDE DEF n
<1>3. g = [seq |-> f.seq, hlc |-> f.hlc, prev |-> f.prev, at |-> f.at,
           verdict |-> f.verdict, hash |-> FactHash(f)]
  BY DEF Stamped, n
<1>4. /\ g.seq = row.seq /\ g.hlc = n /\ g.prev = row.head /\ g.at = now /\ g.verdict = v
      /\ g.hash = FactHash(f)
  BY <1>3
<1>5. FactHash(g) = FactHash(f)
  BY <1>4 DEF FactHash
<1> HIDE DEF f, g
<1>6. Follows(g, a)
  BY <1>1, <1>2, <1>4, <1>5 DEF Follows
<1> QED  BY <1>6 DEF g

\* What committing a fact that follows the actor's row does to the chain.
LEMMA ChainExtended ==
    ASSUME LedgerInv, NEW f, Follows(f, actor),
           facts' = Append(facts, f),
           actor' = [seq |-> f.seq, hlc |-> f.hlc, head |-> f.hash]
    PROVE  /\ facts' \in Seq({facts'[i] : i \in DOMAIN facts'})
           /\ actor'.seq = Len(facts') /\ actor'.hlc \in Nat
           /\ ActorIsLast' /\ Numbered' /\ VerifyChain(facts')
<1> USE DEF LedgerInv
<1> DEFINE S == {facts[i] : i \in DOMAIN facts} \cup {f}
           n == Len(facts)
<1>1. facts \in Seq(S)
  BY SeqMonotonic DEF Recorded
<1>2. /\ n \in Nat /\ DOMAIN facts = 1 .. n
      /\ facts' \in Seq(S) /\ Len(facts') = n + 1 /\ DOMAIN facts' = 1 .. n + 1
      /\ facts'[n + 1] = f /\ \A i \in 1 .. n : facts'[i] = facts[i]
  BY <1>1
<1>3. \A i \in 1 .. n + 1 : i = n + 1 \/ i \in 1 .. n
  BY <1>2
<1>4. {facts'[i] : i \in DOMAIN facts'} = S
  BY <1>2, <1>3
<1>5. actor'.seq = f.seq /\ actor'.hlc = f.hlc /\ actor'.head = f.hash
  OBVIOUS
<1>6. f.seq = n + 1 /\ f.hlc \in Nat
  BY DEF Follows, LedgerTypeOK
<1>7. ActorIsLast'
  BY <1>2, <1>5 DEF ActorIsLast
<1>8. Numbered'
  BY <1>2, <1>3, <1>6 DEF Numbered
<1>9. VerifyChain(facts')
  <2> SUFFICES ASSUME NEW i \in 1 .. n + 1
               PROVE  /\ FactHash(facts'[i]) = facts'[i].hash
                      /\ i > 1 => /\ facts'[i].prev = facts'[i - 1].hash
                                  /\ facts'[i].seq = facts'[i - 1].seq + 1
                                  /\ facts'[i].hlc > facts'[i - 1].hlc
    BY <1>2 DEF VerifyChain
  <2>1. CASE i \in 1 .. n
    <3>1. facts'[i] = facts[i] /\ (i > 1 => i - 1 \in 1 .. n)
      BY <1>2, <2>1
    <3>2. i > 1 => facts'[i - 1] = facts[i - 1]
      BY <1>2, <3>1
    <3> QED  BY <1>2, <2>1, <3>1, <3>2 DEF VerifyChain
  <2>2. CASE i = n + 1 /\ n = 0
    BY <1>2, <2>2 DEF Follows
  <2>3. CASE i = n + 1 /\ n > 0
    <3>0. facts # <<>> /\ i - 1 = n /\ n \in 1 .. n
      BY <1>2, <2>3
    <3>1. facts'[i] = f /\ facts'[i - 1] = facts[n] /\ n \in DOMAIN facts
      BY <1>2, <2>3, <3>0
    <3>2. actor.hlc = facts[n].hlc /\ actor.head = facts[n].hash /\ facts[n].seq = n
      BY <3>0, <3>1 DEF ActorIsLast, Numbered
    <3> QED  BY <1>6, <3>1, <3>2 DEF Follows
  <2> QED  BY <1>2, <1>3, <2>1, <2>2, <2>3
<1> QED  BY <1>2, <1>4, <1>5, <1>6, <1>7, <1>8, <1>9

\* Every step of the ledger keeps the invariant: the lock on the actor's row is
\* what makes the row that was read the row that is extended.
LEMMA LedgerNextInv == LedgerInv /\ [LedgerNext]_ledgerVars => LedgerInv'
<1> SUFFICES ASSUME LedgerInv, [LedgerNext]_ledgerVars PROVE LedgerInv'
  OBVIOUS
<1>0. ASSUME NEW w \in Writer
      PROVE  /\ IsTx(tx[w])
             /\ tx[w].stage \in {"none", "begun", "advanced", "stamped"}
             /\ tx[w].now \in 0 .. MaxClock
  BY DEF LedgerInv, Recorded, LedgerTypeOK
<1>1. CASE ClockMoves
  BY <1>1 DEF ClockMoves, LedgerInv, LedgerTypeOK, Recorded, OneHolder, Holds, ActorIsLast,
              Numbered, RowCurrent
<1>2. ASSUME NEW w \in Writer, BeginTx(w) PROVE LedgerInv'
  <2> DEFINE q == [NoTx EXCEPT !.stage = "begun", !.now = clock]
  <2>1. tx' = [tx EXCEPT ![w] = q] /\ UNCHANGED <<clock, actor, facts>>
    BY <1>2 DEF BeginTx
  <2>2. /\ IsTx(q) /\ q.stage = "begun" /\ q.now = clock
    <3>1. IsTx(NoTx)
      BY DEF IsTx, NoTx
    <3>2. q = [stage |-> "begun", now |-> clock, row |-> NoTx.row, fact |-> NoTx.fact]
      BY <3>1, TxBegun, Zenon
    <3> HIDE DEF q
    <3> QED  BY <3>2 DEF IsTx
  <2>3. clock \in 0 .. MaxClock
    BY DEF LedgerInv, LedgerTypeOK
  <2> HIDE DEF q
  <2> QED  BY <2>1, <2>2, <2>3, TxChanged
<1>3. ASSUME NEW w \in Writer, Advance(w) PROVE LedgerInv'
  <2> DEFINE r == [actor EXCEPT !.seq = actor.seq + 1]
             q == [tx[w] EXCEPT !.stage = "advanced", !.row = r]
  <2>1. tx' = [tx EXCEPT ![w] = q] /\ UNCHANGED <<clock, actor, facts>>
    BY <1>3 DEF Advance
  <2>2. r = [seq |-> actor.seq + 1, hlc |-> actor.hlc, head |-> actor.head]
    BY DEF LedgerInv, Recorded
  <2> HIDE DEF r
  <2>3. /\ IsTx(q) /\ q.stage = "advanced" /\ q.now = tx[w].now /\ q.row = r
    <3>1. q = [stage |-> "advanced", now |-> tx[w].now, row |-> r, fact |-> tx[w].fact]
      BY <1>0, TxAdvanced, Zenon
    <3> HIDE DEF q
    <3> QED  BY <3>1 DEF IsTx
  <2>4. \A v \in Writer : ~ Holds(v)
    BY <1>3 DEF Advance, Unlocked, Holds
  <2> HIDE DEF q
  <2> QED  BY <1>0, <2>1, <2>2, <2>3, <2>4, TxChanged
<1>4. ASSUME NEW w \in Writer, NEW v \in FactVerdict, Stamp(w, v) PROVE LedgerInv'
  <2> DEFINE f == Stamped(tx[w].row, tx[w].now, v)
             r == [seq |-> f.seq, hlc |-> f.hlc, head |-> f.hash]
             q == [tx[w] EXCEPT !.stage = "stamped", !.fact = f, !.row = r]
  <2>1. /\ tx' = [tx EXCEPT ![w] = q] /\ UNCHANGED <<clock, actor, facts>>
        /\ tx[w].stage = "advanced"
    BY <1>4 DEF Stamp
  <2>2. tx[w].row = [seq |-> actor.seq + 1, hlc |-> actor.hlc, head |-> actor.head]
    BY <2>1 DEF LedgerInv, RowCurrent
  <2>3. /\ actor.seq \in Nat /\ actor.hlc \in Nat /\ tx[w].now \in Nat
    <3>1. Len(facts) \in Nat
      BY LenProperties DEF LedgerInv, Recorded
    <3> QED  BY <1>0, <3>1 DEF LedgerInv, LedgerTypeOK
  <2>4. Follows(f, actor)
    BY <2>2, <2>3, StampedFollows
  <2> HIDE DEF f
  <2>5. /\ IsTx(q) /\ q.stage = "stamped" /\ q.now = tx[w].now /\ q.fact = f
        /\ q.row = [seq |-> f.seq, hlc |-> f.hlc, head |-> f.hash]
    <3> HIDE DEF r
    <3>0. \A t, g, b : [tx[w] EXCEPT !.stage = t, !.fact = g, !.row = b]
                         = [stage |-> t, now |-> tx[w].now, row |-> b, fact |-> g]
      BY <1>0, TxStamped, Zenon
    <3>1. q = [stage |-> "stamped", now |-> tx[w].now, row |-> r, fact |-> f]
      BY <3>0, Zenon
    <3> HIDE DEF q
    <3>2. IsTx(q) /\ q.stage = "stamped" /\ q.now = tx[w].now /\ q.fact = f /\ q.row = r
      BY <3>1 DEF IsTx
    <3> QED  BY <3>2 DEF r
  <2>6. Holds(w)
    BY <2>1 DEF Holds
  <2> HIDE DEF q
  <2> QED  BY <1>0, <2>1, <2>4, <2>5, <2>6, TxChanged
<1>5. ASSUME NEW w \in Writer, Commit(w) PROVE LedgerInv'
  <2>1. /\ tx[w].stage = "stamped" /\ actor' = tx[w].row
        /\ facts' = Append(facts, tx[w].fact)
        /\ tx' = [tx EXCEPT ![w] = NoTx] /\ clock' = clock
    BY <1>5 DEF Commit
  <2>2. PICK f : f = tx[w].fact
    OBVIOUS
  <2>3. Follows(f, actor) /\ actor' = [seq |-> f.seq, hlc |-> f.hlc, head |-> f.hash]
    BY <2>1, <2>2 DEF LedgerInv, RowCurrent
  <2>4. /\ facts' \in Seq({facts'[i] : i \in DOMAIN facts'})
        /\ actor'.seq = Len(facts') /\ actor'.hlc \in Nat
        /\ ActorIsLast' /\ Numbered' /\ VerifyChain(facts')
    BY <2>1, <2>2, <2>3, ChainExtended
  <2>5. /\ tx = [v \in Writer |-> tx[v]]
        /\ tx'[w] = NoTx /\ \A v \in Writer \ {w} : tx'[v] = tx[v]
    <3>1. tx = [v \in Writer |-> tx[v]]
      BY DEF LedgerInv, Recorded
    <3> QED  BY <2>1, <3>1
  <2>6. \A v \in Writer : ~ Holds(v)'
    <3>1. Holds(w)
      BY <2>1 DEF Holds
    <3>2. \A v \in Writer \ {w} : ~ Holds(v)
      BY <3>1 DEF LedgerInv, OneHolder
    <3> QED  BY <2>5, <3>2 DEF Holds, NoTx
  <2>7. (OneHolder /\ RowCurrent)'
    BY <2>6 DEF OneHolder, RowCurrent, Holds
  <2>8. LedgerTypeOK'
    BY <1>0, <2>1, <2>4, <2>5, LedgerConstants DEF LedgerInv, LedgerTypeOK, NoTx
  <2>9. Recorded'
    <3>1. actor' = [seq |-> actor'.seq, hlc |-> actor'.hlc, head |-> actor'.head]
      BY <2>3
    <3>2. \A v \in Writer : IsTx(tx'[v])
      BY <1>0, <2>5 DEF NoTx, IsTx
    <3>3. tx' = [v \in Writer |-> tx'[v]]
      BY <2>1, <2>5
    <3> QED  BY <2>4, <3>1, <3>2, <3>3 DEF Recorded
  <2> QED  BY <2>4, <2>7, <2>8, <2>9 DEF LedgerInv
<1>6. ASSUME NEW w \in Writer, Rollback(w) PROVE LedgerInv'
  <2>1. tx' = [tx EXCEPT ![w] = NoTx] /\ UNCHANGED <<clock, actor, facts>>
    BY <1>6 DEF Rollback
  <2>2. IsTx(NoTx) /\ NoTx.stage = "none" /\ NoTx.now \in 0 .. MaxClock
    BY LedgerConstants DEF NoTx, IsTx
  <2> QED  BY <2>1, <2>2, TxChanged
<1>7. CASE UNCHANGED ledgerVars
  BY <1>7 DEF ledgerVars, LedgerInv, LedgerTypeOK, Recorded, OneHolder, Holds, ActorIsLast,
              Numbered, RowCurrent
<1> QED  BY <1>1, <1>2, <1>3, <1>4, <1>5, <1>6, <1>7 DEF LedgerNext

\* The lock, the row that was read under it and the chain stay in step, as
\* stampFact needs them.
THEOREM LedgerInvariant == LedgerSpec => []LedgerInv
<1> QED  BY LedgerInitInv, LedgerNextInv, PTL DEF LedgerSpec

\* A sequence number is a position in the chain, and the clock is a number.
THEOREM LedgerTypeCorrect == LedgerSpec => []LedgerTypeOK
<1>1. LedgerInv => LedgerTypeOK
  BY DEF LedgerInv
<1> QED  BY <1>1, LedgerInvariant, PTL

(* verifyChain finds an actor's chain valid, whichever transactions        *)
(* interleaved or rolled back and whatever the wall clock did: hashes,     *)
(* links, gapless sequence and strictly increasing hybrid clock.           *)
THEOREM ChainSafe == LedgerSpec => []ChainValid
<1>1. LedgerInv => ChainValid
  BY DEF LedgerInv, ChainValid, ActorIsLast
<1> QED  BY <1>1, LedgerInvariant, PTL

-----------------------------------------------------------------------------
(* Uptime *)

\* An observation is of an instant, and is measured or not.
Instants ==
    /\ \A i \in DOMAIN facts : facts[i].at \in Nat
    /\ \A w \in Writer : tx[w].stage = "stamped" => tx[w].fact.at \in Nat

\* The instant of an observation is the transaction's own.
LEMMA InstantsNext == LedgerInv /\ Instants /\ [LedgerNext]_ledgerVars => Instants'
<1> SUFFICES ASSUME LedgerInv, Instants, [LedgerNext]_ledgerVars PROVE Instants'
  OBVIOUS
<1>0. /\ tx = [w \in Writer |-> tx[w]] /\ facts \in Seq({facts[i] : i \in DOMAIN facts})
      /\ \A w \in Writer : IsTx(tx[w]) /\ tx[w].now \in Nat
  BY LedgerConstants DEF LedgerInv, Recorded, LedgerTypeOK
<1>1. CASE ClockMoves \/ UNCHANGED ledgerVars
  BY <1>1 DEF ClockMoves, ledgerVars, Instants
<1>2. ASSUME NEW w \in Writer, BeginTx(w) \/ Advance(w) \/ Rollback(w) PROVE Instants'
  <2>1. facts' = facts /\ \E q : tx' = [tx EXCEPT ![w] = q] /\ q.stage # "stamped"
    <3>1. CASE BeginTx(w)
      <4>1. PICK q : q = [NoTx EXCEPT !.stage = "begun", !.now = clock]
        OBVIOUS
      <4>2. q.stage = "begun"
        BY <4>1 DEF NoTx
      <4> QED  BY <3>1, <4>1, <4>2 DEF BeginTx
    <3>2. CASE Advance(w)
      <4> DEFINE r == [actor EXCEPT !.seq = actor.seq + 1]
                 q == [tx[w] EXCEPT !.stage = "advanced", !.row = r]
      <4>1. tx' = [tx EXCEPT ![w] = q] /\ facts' = facts
        BY <3>2 DEF Advance
      <4> HIDE DEF r
      <4>2. q = [stage |-> "advanced", now |-> tx[w].now, row |-> r, fact |-> tx[w].fact]
        BY <1>0, TxAdvanced, Zenon
      <4> HIDE DEF q
      <4>3. q.stage = "advanced"
        BY <4>2
      <4> QED  BY <4>1, <4>3
    <3>3. CASE Rollback(w)
      <4>1. PICK q : q = NoTx
        OBVIOUS
      <4>2. q.stage = "none"
        BY <4>1 DEF NoTx
      <4> QED  BY <3>3, <4>1, <4>2 DEF Rollback
    <3> QED  BY <1>2, <3>1, <3>2, <3>3
  <2>2. PICK q : tx' = [tx EXCEPT ![w] = q] /\ q.stage # "stamped"
    BY <2>1
  <2>3. tx'[w] = q /\ \A v \in Writer \ {w} : tx'[v] = tx[v]
    BY <1>0, <2>2
  <2> QED  BY <2>1, <2>2, <2>3 DEF Instants
<1>3. ASSUME NEW w \in Writer, NEW v \in FactVerdict, Stamp(w, v) PROVE Instants'
  <2>1. PICK f, r : /\ f = Stamped(tx[w].row, tx[w].now, v)
                    /\ r = [seq |-> f.seq, hlc |-> f.hlc, head |-> f.hash]
    OBVIOUS
  <2>2. PICK q : q = [tx[w] EXCEPT !.stage = "stamped", !.fact = f, !.row = r]
    OBVIOUS
  <2>3. tx' = [tx EXCEPT ![w] = q] /\ facts' = facts
    BY <1>3, <2>1, <2>2 DEF Stamp
  <2>4. q.fact = f
    <3>1. q = [stage |-> "stamped", now |-> tx[w].now, row |-> r, fact |-> f]
      BY <1>0, <2>2, TxStamped, Zenon
    <3> QED  BY <3>1
  <2>5. f.at = tx[w].now
    BY <2>1 DEF Stamped
  <2>6. tx'[w] = q /\ \A u \in Writer \ {w} : tx'[u] = tx[u]
    BY <1>0, <2>3
  <2> QED  BY <1>0, <2>3, <2>4, <2>5, <2>6 DEF Instants
<1>4. ASSUME NEW w \in Writer, Commit(w) PROVE Instants'
  <2>1. /\ tx[w].stage = "stamped" /\ facts' = Append(facts, tx[w].fact)
        /\ tx' = [tx EXCEPT ![w] = NoTx]
    BY <1>4 DEF Commit
  <2>2. tx'[w] = NoTx /\ \A v \in Writer \ {w} : tx'[v] = tx[v]
    BY <1>0, <2>1
  <2>3. PICK f, S : f = tx[w].fact /\ S = {facts[i] : i \in DOMAIN facts} \cup {tx[w].fact}
    OBVIOUS
  <2>4. f.at \in Nat
    BY <2>1, <2>3 DEF Instants
  <2>5. facts \in Seq(S) /\ f \in S
    BY <1>0, <2>3
  <2>6. \A i \in DOMAIN facts' : (i \in DOMAIN facts /\ facts'[i] = facts[i]) \/ facts'[i] = f
    BY <2>1, <2>3, <2>5, AppendProperties
  <2> QED  BY <2>2, <2>4, <2>6 DEF Instants, NoTx
<1> QED  BY <1>1, <1>2, <1>3, <1>4 DEF LedgerNext

\* Any set of naturals that is not empty has a least element.
LEMMA LeastElement ==
    ASSUME NEW T, T \subseteq Nat, T # {}
    PROVE  \E x \in T : \A y \in T : x <= y
<1>1. IsWellFoundedOn({ss \in Nat \X Nat : ss[1] < ss[2]}, Nat)
  BY NatLessThanWellFounded DEF OpToRel
<1>2. PICK R : R = {ss \in Nat \X Nat : ss[1] < ss[2]}
  OBVIOUS
<1>3. PICK x \in T : \A y \in T : ~ (<<y, x>> \in R)
  BY <1>1, <1>2, WFMin
<1>4. \A y \in T : ~ (y < x)
  BY <1>2, <1>3
<1> QED  BY <1>4

\* The observations, as far as a window reads them.
Measured == \A i \in DOMAIN facts : i \in Nat /\ facts[i].at \in Nat

\* The last observation at or before an instant, if there is one: no other
\* comes after it.
LEMMA VoucherIsLast ==
    ASSUME Measured, NEW t \in Nat, Vouchers(t) # {},
           NEW n \in Nat, \A i \in DOMAIN facts : i <= n
    PROVE  /\ Voucher(t) \in Vouchers(t)
           /\ \A j \in Vouchers(t) \ {Voucher(t)} : Before(j, Voucher(t))
<1>1. PICK A : A = {t - facts[i].at : i \in Vouchers(t)}
  OBVIOUS
<1>2. A \subseteq Nat /\ A # {}
  BY <1>1 DEF Measured, Vouchers
<1>3. PICK a \in A : \A y \in A : a <= y
  BY <1>2, LeastElement
<1>4. PICK B : B = {n - i : i \in {k \in Vouchers(t) : t - facts[k].at = a}}
  OBVIOUS
<1>5. B \subseteq Nat /\ B # {}
  <2>1. B # {}
    BY <1>1, <1>4
  <2>2. B \subseteq Nat
    BY <1>4 DEF Measured, Vouchers
  <2> QED  BY <2>1, <2>2
<1>6. PICK b \in B : \A y \in B : b <= y
  BY <1>5, LeastElement
<1>7. PICK i \in Vouchers(t) : t - facts[i].at = a /\ b = n - i
  BY <1>4
<1>8. ASSUME NEW j \in Vouchers(t) \ {i} PROVE Before(j, i)
  <2>1. /\ facts[i].at \in Nat /\ facts[j].at \in Nat /\ i \in Nat /\ j \in Nat
    BY DEF Measured, Vouchers
  <2>2. t - facts[j].at \in A /\ a <= t - facts[j].at
    BY <1>1, <1>3
  <2>3. CASE t - facts[j].at = a
    <3>1. n - j \in B
      BY <1>4, <2>3
    <3>2. n - i <= n - j
      BY <1>6, <1>7, <3>1
    <3> QED  BY <1>7, <2>1, <2>3, <3>2 DEF Before
  <2>4. CASE t - facts[j].at # a
    BY <1>7, <2>1, <2>2, <2>4 DEF Before
  <2> QED  BY <2>3, <2>4
<1> QED  BY <1>8 DEF Voucher


\* The windows uptime is asked for.
IsWindow(start, end) == start \in Nat /\ end \in Nat /\ start <= end

\* Where the evidence of an observation ends is a time, and no other that was
\* read comes between.
LEMMA SegmentEnds ==
    ASSUME Measured, NEW start, NEW end, IsWindow(start, end), NEW i \in Ordered(start, end)
    PROVE  LET e == SegmentEnd(i, end, Ordered(start, end))
           IN  /\ e \in Nat /\ e <= end /\ e <= facts[i].at + CoverageHorizon
               /\ \A j \in Ordered(start, end) : Before(i, j) => e <= facts[j].at
               /\ \/ e = end \/ e = facts[i].at + CoverageHorizon
                  \/ \E j \in Ordered(start, end) : Before(i, j) /\ e = facts[j].at
<1>1. PICK read, T : /\ read = Ordered(start, end)
                     /\ T = {end, facts[i].at + CoverageHorizon}
                              \cup {facts[j].at : j \in {k \in read : Before(i, k)}}
  OBVIOUS
<1>2. \A j \in read : facts[j].at \in Nat
  BY <1>1 DEF Measured, Ordered
<1>3. T \subseteq Nat /\ T # {}
  BY <1>1, <1>2, LedgerConstants DEF IsWindow
<1>4. PICK e \in T : \A y \in T : e <= y
  BY <1>3, LeastElement
<1>5. Least(T) \in T /\ \A y \in T : Least(T) <= y
  BY <1>4 DEF Least
<1>6. SegmentEnd(i, end, read) = Least(T)
  BY <1>1 DEF SegmentEnd
<1> QED  BY <1>1, <1>3, <1>5, <1>6

\* The instants of a window an observation vouches for.
TimesOf(i, start, end) == {t \in CoveredTimes(start, end) : Voucher(t) = i}

\* They are one interval, as long as its segment.
LEMMA SegmentIsTimes ==
    ASSUME Measured, NEW n \in Nat, \A k \in DOMAIN facts : k <= n,
           NEW start, NEW end, IsWindow(start, end), NEW i \in Ordered(start, end)
    PROVE  /\ IsFiniteSet(TimesOf(i, start, end))
           /\ Segment(i, start, end, Ordered(start, end)) = Cardinality(TimesOf(i, start, end))
<1>1. PICK read, e : read = Ordered(start, end) /\ e = SegmentEnd(i, end, read)
  OBVIOUS
<1>2. /\ e \in Nat /\ e <= end /\ e <= facts[i].at + CoverageHorizon
      /\ \A j \in read : Before(i, j) => e <= facts[j].at
      /\ \/ e = end \/ e = facts[i].at + CoverageHorizon
         \/ \E j \in read : Before(i, j) /\ e = facts[j].at
  BY <1>1, SegmentEnds
<1>3. /\ i \in DOMAIN facts /\ i \in Nat /\ facts[i].at \in Nat /\ facts[i].verdict # "indeterminate"
      /\ facts[i].at + CoverageHorizon > start /\ facts[i].at < end
  BY DEF Measured, Ordered
<1>4. PICK a : a = Greatest({facts[i].at, start})
  OBVIOUS
<1>5. a = IF facts[i].at >= start THEN facts[i].at ELSE start
  <2>1. \E x \in {facts[i].at, start} : \A y \in {facts[i].at, start} : x >= y
    BY <1>3 DEF IsWindow
  <2>2. a \in {facts[i].at, start} /\ \A y \in {facts[i].at, start} : a >= y
    BY <1>4, <2>1 DEF Greatest
  <2> QED  BY <1>3, <2>2 DEF IsWindow
<1>6. a \in Nat /\ start \in Nat /\ end \in Nat /\ CoverageHorizon \in Nat
  BY <1>3, <1>5, LedgerConstants DEF IsWindow
<1>7. Segment(i, start, end, read) = IF e >= a THEN e - a ELSE 0
  <2>1. PICK d : d = e - a
    OBVIOUS
  <2>2. d \in Int
    BY <1>2, <1>6, <2>1
  <2>3. \E x \in {0, d} : \A y \in {0, d} : x >= y
    BY <2>2
  <2>4. Greatest({0, d}) \in {0, d} /\ \A y \in {0, d} : Greatest({0, d}) >= y
    BY <2>3 DEF Greatest
  <2>5. Segment(i, start, end, read) = Greatest({0, d})
    BY <1>1, <1>4, <2>1 DEF Segment
  <2> QED  BY <1>2, <1>6, <2>1, <2>2, <2>4, <2>5
<1>8. ASSUME NEW t \in a .. e - 1 PROVE t \in TimesOf(i, start, end)
  <2>1. t \in Nat /\ t >= start /\ t < end /\ facts[i].at <= t /\ t < e /\ t < facts[i].at + CoverageHorizon
    BY <1>2, <1>3, <1>5, <1>6
  <2>2. i \in Vouchers(t)
    BY <1>3, <2>1 DEF Vouchers
  <2>3. PICK v : v = Voucher(t)
    OBVIOUS
  <2>4. v \in Vouchers(t) /\ \A j \in Vouchers(t) \ {v} : Before(j, v)
    BY <2>1, <2>2, <2>3, VoucherIsLast
  <2>5. v = i
    <3> SUFFICES ASSUME v # i PROVE FALSE
      OBVIOUS
    <3>1. Before(i, v)
      BY <2>2, <2>4
    <3>2. /\ v \in DOMAIN facts /\ facts[v].verdict # "indeterminate" /\ facts[v].at <= t
          /\ facts[v].at \in Nat
      BY <2>4 DEF Vouchers, Measured
    <3>3. facts[i].at <= facts[v].at
      BY <1>3, <3>1, <3>2 DEF Before
    <3>4. v \in read
      BY <1>1, <1>3, <1>6, <2>1, <3>2, <3>3 DEF Ordered
    <3> QED  BY <1>2, <2>1, <3>1, <3>2, <3>4
  <2>6. t \in start .. end - 1 /\ Vouchers(t) # {} /\ Voucher(t) = i
    BY <1>6, <2>1, <2>2, <2>3, <2>5
  <2> QED  BY <2>1, <2>6 DEF TimesOf, CoveredTimes
<1>9. ASSUME NEW t \in TimesOf(i, start, end) PROVE t \in a .. e - 1
  <2>1. /\ t \in start .. end - 1 /\ Vouchers(t) # {} /\ t < facts[i].at + CoverageHorizon /\ Voucher(t) = i
    BY DEF TimesOf, CoveredTimes
  <2>2. t \in Nat /\ start <= t /\ t < end
    BY <1>6, <2>1
  <2>3. i \in Vouchers(t) /\ \A j \in Vouchers(t) \ {i} : Before(j, i)
    BY <2>1, <2>2, VoucherIsLast
  <2>4. facts[i].at <= t
    BY <2>3 DEF Vouchers
  <2>5. t < e
    <3>1. ASSUME NEW j \in read, Before(i, j), e = facts[j].at PROVE t < e
      <4> SUFFICES ASSUME ~ (t < e) PROVE FALSE
        OBVIOUS
      <4>1. /\ j \in DOMAIN facts /\ j \in Nat /\ facts[j].at \in Nat
            /\ facts[j].verdict # "indeterminate"
        BY <1>1, <3>1 DEF Ordered, Measured
      <4>2. j \in Vouchers(t) \ {i}
        BY <1>3, <2>2, <3>1, <4>1 DEF Vouchers, Before
      <4>3. Before(j, i)
        BY <2>3, <4>2
      <4> QED  BY <1>3, <3>1, <4>1, <4>3 DEF Before
    <3> QED  BY <1>2, <2>1, <2>2, <3>1
  <2> QED  BY <1>2, <1>5, <1>6, <2>2, <2>4, <2>5
<1>10. TimesOf(i, start, end) = a .. e - 1
  BY <1>8, <1>9
<1>11. /\ IsFiniteSet(a .. e - 1)
       /\ Cardinality(a .. e - 1) = IF a > e - 1 THEN 0 ELSE e - 1 - a + 1
  <2>1. a \in Int /\ e - 1 \in Int
    BY <1>2, <1>6
  <2> QED  BY <2>1, FS_Interval
<1> QED  BY <1>1, <1>2, <1>6, <1>7, <1>10, <1>11

\* The instants of a window that the observations in S vouch for.
CountOf(S, start, end) == Cardinality({t \in CoveredTimes(start, end) : Voucher(t) \in S})

\* A window, and as many observations as there are.
Reading(start, end, n) ==
    Measured /\ n \in Nat /\ (\A k \in DOMAIN facts : k <= n) /\ IsWindow(start, end)

\* No instant has two vouchers: one more observation adds its own.
LEMMA CountAdds ==
    ASSUME NEW start, NEW end, NEW n, Reading(start, end, n),
           NEW S, S \subseteq Ordered(start, end), NEW x \in S
    PROVE  /\ CountOf(S, start, end) =
                Segment(x, start, end, Ordered(start, end)) + CountOf(S \ {x}, start, end)
           /\ CountOf(S, start, end) \in Nat
<1>1. PICK A, B, C : /\ A = {t \in CoveredTimes(start, end) : Voucher(t) \in S}
                     /\ B = {t \in CoveredTimes(start, end) : Voucher(t) \in S \ {x}}
                     /\ C = TimesOf(x, start, end)
  OBVIOUS
<1>2. IsFiniteSet(CoveredTimes(start, end))
  <2>1. start \in Int /\ end - 1 \in Int
    BY DEF Reading, IsWindow
  <2>2. IsFiniteSet(start .. end - 1)
    BY <2>1, FS_Interval
  <2>3. CoveredTimes(start, end) \in SUBSET (start .. end - 1)
    BY DEF CoveredTimes
  <2> QED  BY <2>2, <2>3, FS_Subset
<1>3. A = C \cup B /\ C \cap B = {}
  BY <1>1 DEF TimesOf
<1>4. IsFiniteSet(A) /\ IsFiniteSet(B) /\ IsFiniteSet(C)
  <2>1. A \in SUBSET CoveredTimes(start, end) /\ B \in SUBSET CoveredTimes(start, end)
        /\ C \in SUBSET CoveredTimes(start, end)
    BY <1>1 DEF TimesOf
  <2> QED  BY <1>2, <2>1, FS_Subset
<1>5. Cardinality(A) = Cardinality(C) + Cardinality(B) - Cardinality(C \cap B)
  BY <1>3, <1>4, FS_Union
<1>6. Cardinality(C \cap B) = 0
  BY <1>3, FS_EmptySet
<1>7. Cardinality(A) \in Nat /\ Cardinality(B) \in Nat /\ Cardinality(C) \in Nat
  BY <1>4, FS_CardinalityType
<1>8. Segment(x, start, end, Ordered(start, end)) = Cardinality(C)
  BY <1>1, SegmentIsTimes DEF Reading
<1> QED  BY <1>1, <1>5, <1>6, <1>7, <1>8 DEF CountOf

\* The sum of the segments, observation by observation.
IsSum(w, S, start, end) ==
    w = [s \in SUBSET S |->
            IF s = {} THEN 0
            ELSE Segment(CHOOSE x \in s : TRUE, start, end, Ordered(start, end))
                   + w[s \ {CHOOSE x \in s : TRUE}]]

\* The count is such a sum.
LEMMA CountIsSum ==
    ASSUME NEW start, NEW end, NEW n, Reading(start, end, n),
           NEW S, S \subseteq Ordered(start, end)
    PROVE  IsSum([s \in SUBSET S |-> CountOf(s, start, end)], S, start, end)
<1>1. PICK w : w = [s \in SUBSET S |-> CountOf(s, start, end)]
  OBVIOUS
<1>2. ASSUME NEW s \in SUBSET S
      PROVE  w[s] = IF s = {} THEN 0
                    ELSE Segment(CHOOSE x \in s : TRUE, start, end, Ordered(start, end))
                           + w[s \ {CHOOSE x \in s : TRUE}]
  <2>1. CASE s = {}
    <3>1. {t \in CoveredTimes(start, end) : Voucher(t) \in s} = {}
      BY <2>1
    <3> QED  BY <1>1, <2>1, <3>1, FS_EmptySet DEF CountOf
  <2>2. CASE s # {}
    <3>1. PICK x : x = CHOOSE y \in s : TRUE
      OBVIOUS
    <3>2. x \in s /\ s \ {x} \in SUBSET S
      BY <2>2, <3>1
    <3>3. CountOf(s, start, end) =
             Segment(x, start, end, Ordered(start, end)) + CountOf(s \ {x}, start, end)
      BY <3>2, CountAdds
    <3>4. w[s] = Segment(x, start, end, Ordered(start, end)) + w[s \ {x}]
      BY <1>1, <3>2, <3>3
    <3> QED  BY <2>2, <3>1, <3>4
  <2> QED  BY <2>1, <2>2
<1>3. w = [s \in SUBSET S |->
            IF s = {} THEN 0
            ELSE Segment(CHOOSE x \in s : TRUE, start, end, Ordered(start, end))
                   + w[s \ {CHOOSE x \in s : TRUE}]]
  BY <1>1, <1>2
<1> QED  BY <1>1, <1>3 DEF IsSum

\* And there is no other.
LEMMA SumIsCount ==
    ASSUME NEW start, NEW end, NEW n, Reading(start, end, n),
           NEW S, S \subseteq Ordered(start, end), NEW w, IsSum(w, S, start, end)
    PROVE  w[S] = CountOf(S, start, end)
<1>1. IsFiniteSet(S)
  <2>1. S \in SUBSET (0 .. n)
    BY DEF Reading, Measured, Ordered
  <2>2. IsFiniteSet(0 .. n)
    BY FS_Interval DEF Reading
  <2> QED  BY <2>1, <2>2, FS_Subset
<1>2. PICK T : T = {Cardinality(s) : s \in {r \in SUBSET S : w[r] # CountOf(r, start, end)}}
  OBVIOUS
<1>3. T = {}
  <2> SUFFICES ASSUME T # {} PROVE FALSE
    OBVIOUS
  <2>1. T \subseteq Nat
    BY <1>1, <1>2, FS_Subset, FS_CardinalityType
  <2>2. PICK m \in T : \A y \in T : m <= y
    BY <2>1, LeastElement
  <2>3. PICK s \in SUBSET S : w[s] # CountOf(s, start, end) /\ m = Cardinality(s)
    BY <1>2
  <2>4. w[s] = IF s = {} THEN 0
               ELSE Segment(CHOOSE x \in s : TRUE, start, end, Ordered(start, end))
                      + w[s \ {CHOOSE x \in s : TRUE}]
    BY DEF IsSum
  <2>5. s # {}
    <3> SUFFICES ASSUME s = {} PROVE FALSE
      OBVIOUS
    <3>1. {t \in CoveredTimes(start, end) : Voucher(t) \in s} = {}
      OBVIOUS
    <3> QED  BY <2>3, <2>4, <3>1, FS_EmptySet DEF CountOf
  <2>6. PICK x : x = CHOOSE y \in s : TRUE
    OBVIOUS
  <2>7. x \in s /\ s \ {x} \in SUBSET S
    BY <2>5, <2>6
  <2>8. IsFiniteSet(s) /\ Cardinality(s) \in Nat
    BY <1>1, FS_Subset, FS_CardinalityType
  <2>9. Cardinality(s \ {x}) = Cardinality(s) - 1
    BY <2>7, <2>8, FS_RemoveElement
  <2>10. Cardinality(s \ {x}) \notin T
    BY <2>2, <2>3, <2>8, <2>9
  <2>11. w[s \ {x}] = CountOf(s \ {x}, start, end)
    BY <1>2, <2>7, <2>10
  <2>12. CountOf(s, start, end) =
            Segment(x, start, end, Ordered(start, end)) + CountOf(s \ {x}, start, end)
    BY <2>7, CountAdds
  <2> QED  BY <2>3, <2>4, <2>5, <2>6, <2>11, <2>12
<1> QED  BY <1>2, <1>3

\* What uptimeFromSamples adds up, of the observations in S.
LEMMA TotalCounts ==
    ASSUME NEW start, NEW end, NEW n, Reading(start, end, n),
           NEW S, S \subseteq Ordered(start, end)
    PROVE  MapThenSumSet(LAMBDA i : Segment(i, start, end, Ordered(start, end)), S)
             = CountOf(S, start, end)
<1> HIDE DEF Segment, Ordered
<1>1. PICK w : w = CHOOSE v : IsSum(v, S, start, end)
  OBVIOUS
<1>2. IsSum(w, S, start, end)
  BY <1>1, CountIsSum
<1>3. MapThenSumSet(LAMBDA i : Segment(i, start, end, Ordered(start, end)), S) = w[S]
  BY <1>1 DEF MapThenSumSet, MapThenFoldSet, IsSum
<1> QED  BY <1>2, <1>3, SumIsCount

\* Whoever vouches for a covered instant is among those the window read.
LEMMA VoucherRead ==
    ASSUME NEW start, NEW end, NEW n, Reading(start, end, n), NEW t \in CoveredTimes(start, end)
    PROVE  Voucher(t) \in Ordered(start, end)
<1>1. PICK v : v = Voucher(t)
  OBVIOUS
<1>2. /\ t \in start .. end - 1 /\ Vouchers(t) # {} /\ t < facts[v].at + CoverageHorizon
  BY <1>1 DEF CoveredTimes
<1>3. t \in Nat /\ start <= t /\ t < end /\ start \in Nat /\ end \in Nat
  BY <1>2 DEF Reading, IsWindow
<1>4. v \in Vouchers(t)
  BY <1>1, <1>2, <1>3, VoucherIsLast DEF Reading
<1>5. /\ v \in DOMAIN facts /\ facts[v].verdict # "indeterminate" /\ facts[v].at <= t
      /\ facts[v].at \in Nat
  BY <1>4 DEF Vouchers, Measured, Reading
<1> QED  BY <1>1, <1>2, <1>3, <1>5, LedgerConstants DEF Ordered

\* What one window is told of its coverage is the reference reading of it.
LEMMA WindowSound ==
    ASSUME NEW start, NEW end, NEW n, Reading(start, end, n)
    PROVE  Uptime(start, end) =
             [covered |-> Cardinality(CoveredTimes(start, end)),
              up |-> Cardinality({t \in CoveredTimes(start, end) :
                                    facts[Voucher(t)].verdict # "down"})]
<1>1. PICK read, well, seen, good :
         /\ read = Ordered(start, end)
         /\ well = {i \in read : facts[i].verdict # "down"}
         /\ seen = CoveredTimes(start, end)
         /\ good = {t \in seen : facts[Voucher(t)].verdict # "down"}
  OBVIOUS
<1>2. read \subseteq Ordered(start, end) /\ well \subseteq Ordered(start, end)
  BY <1>1
<1>3. \A t \in seen : Voucher(t) \in read
  BY <1>1, VoucherRead
<1>4. /\ seen = {t \in CoveredTimes(start, end) : Voucher(t) \in read}
      /\ good = {t \in CoveredTimes(start, end) : Voucher(t) \in well}
  BY <1>1, <1>3
<1>5. CountOf(read, start, end) = Cardinality(seen) /\ CountOf(well, start, end) = Cardinality(good)
  BY <1>4 DEF CountOf
<1>6. MapThenSumSet(LAMBDA i : Segment(i, start, end, Ordered(start, end)), read)
        = CountOf(read, start, end)
  BY <1>2, TotalCounts
<1>7. MapThenSumSet(LAMBDA i : Segment(i, start, end, Ordered(start, end)), well)
        = CountOf(well, start, end)
  BY <1>2, TotalCounts
<1>8. Uptime(start, end) =
        [covered |-> MapThenSumSet(LAMBDA i : Segment(i, start, end, Ordered(start, end)), read),
         up |-> MapThenSumSet(LAMBDA i : Segment(i, start, end, Ordered(start, end)), well)]
  BY <1>1 DEF Uptime
<1> QED  BY <1>1, <1>5, <1>6, <1>7, <1>8

\* Uptime over a window, as uptimeFromSamples adds it up from segments, is the
\* time the last measured observation vouches for, and of it the time up: on
\* every window of every history, for every horizon.
THEOREM UptimeSafe == LedgerSpec => []UptimeSound
<1>1. LedgerInit => Instants
  BY DEF LedgerInit, Instants, NoTx
<1>2. LedgerInv /\ Instants => UptimeSound
  <2> SUFFICES ASSUME LedgerInv, Instants, NEW start \in 0 .. MaxClock,
                      NEW end \in start .. MaxClock + 1
               PROVE  Uptime(start, end) =
                        [covered |-> Cardinality(CoveredTimes(start, end)),
                         up |-> Cardinality({t \in CoveredTimes(start, end) :
                                               facts[Voucher(t)].verdict # "down"})]
    BY DEF UptimeSound
  <2>1. PICK n : n = Len(facts)
    OBVIOUS
  <2>2. n \in Nat /\ DOMAIN facts = 1 .. n
    BY <2>1, LenProperties DEF LedgerInv, Recorded
  <2>3. IsWindow(start, end)
    BY LedgerConstants DEF IsWindow
  <2>4. Reading(start, end, n)
    BY <2>2, <2>3 DEF Reading, Measured, Instants
  <2> QED  BY <2>4, WindowSound
<1> QED  BY <1>1, <1>2, InstantsNext, LedgerInvariant, PTL DEF LedgerSpec
=============================================================================
