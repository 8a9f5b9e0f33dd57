---------------------------- MODULE ShardLeases -----------------------------
(***************************************************************************)
(* Shard leases of the high-frequency plane (modules/monitors/highfreq/    *)
(* leases.ts and the claiming half of plane.ts): which worker may probe    *)
(* the monitors of a shard, as the lease table says and as the worker's    *)
(* memory says.  FastSlots models what a worker does with the shards.      *)
(*                                                                         *)
(* A timestamp is the time left until it by the database's clock, so time  *)
(* has no bound; Skew[w] is how far the clock of worker w runs ahead of    *)
(* that one, or behind it when negative.  A statement's execution and the  *)
(* arrival of its answer are two steps.                                    *)
(* `undercut' and `upsets' are history.                                    *)
(*                                                                         *)
(* A definition named X_Y is X with a plausible mistake Y in it.           *)
(***************************************************************************)
EXTENDS Integers

CONSTANTS
    Worker, Shard,
    Nobody,
    TTL,        \* HF_LEASE_TTL_MS
    Skew,
    Lag,        \* no clock runs further behind: a grant past it is not aged
    Renewal,    \* overlapping runs of the renewal timer of a worker
    MaxUpsets   \* bound on edits, deaths, shutdowns and failed statements

ASSUME LeaseConstants ==
    /\ TTL \in Nat \ {0}
    /\ Lag \in Nat \ {0}
    /\ Skew \in [Worker -> Int] /\ \A w \in Worker : Skew[w] >= - Lag
    /\ Nobody \notin Worker
    /\ "reload" \notin Renewal
    /\ MaxUpsets \in Nat

VARIABLES
    lease,     \* monitor_hf_leases, a shard without a row owned by Nobody
    fleet,     \* whether the discovery query finds a monitor
    plane,     \* HighFrequencyPlane's fields
    reload,    \* the reload in flight
    claim,     \* the calls of claimNow in flight
    undercut,  \* history: a stale grant was handed back over a newer one
    upsets

leaseVars == <<lease, fleet, plane, reload, claim, undercut, upsets>>

-----------------------------------------------------------------------------
Call == {"reload"} \cup Renewal

Left == - Lag .. TTL

Free == [owner |-> Nobody, left |-> -1]

None == [s \in {} |-> 0]

NoClaim == [stage |-> "none", epoch |-> 0, grant |-> None]

NoReload == [stage |-> "none", found |-> FALSE, shards |-> {}]

NewPlane == [up |-> FALSE, stopping |-> FALSE, wants |-> FALSE, epoch |-> 0,
             leases |-> None]

LeaseInit ==
    /\ lease = [s \in Shard |-> Free]
    /\ fleet \in BOOLEAN
    /\ plane = [w \in Worker |-> NewPlane]
    /\ reload = [w \in Worker |-> NoReload]
    /\ claim = [w \in Worker |-> [c \in Call |-> NoClaim]]
    /\ undercut = [w \in Worker |-> FALSE]
    /\ upsets = 0

-----------------------------------------------------------------------------
\* holdsShards: the grants that have not lapsed by the worker's own clock.
Held(w) == {s \in DOMAIN plane[w].leases : plane[w].leases[s] > Skew[w]}

Takeable_Eager(w, s) == lease[s].owner \in {w, Nobody} \/ lease[s].left < TTL

\* The WHERE of claimShards' upsert, or no row to conflict with.
Takeable(w, s) == lease[s].owner \in {w, Nobody} \/ lease[s].left < 0

\* The shards that claimShards' statement answers with.
Granted(w) == {s \in Shard : Takeable(w, s)}

\* releaseShards, scoped to the owner.
ReleaseShards(w, shards) ==
    [s \in Shard |-> IF s \in shards /\ lease[s].owner = w THEN Free ELSE lease[s]]

NextEpoch_Same(n) == n

\* leaseEpoch += 1, wherever the plane hands its shards back.
NextEpoch(n) == n + 1

\* What tick() may issue probes for: its fence is the worker's memory.
MayProbe(w) == IF plane[w].up THEN Held(w) ELSE {}

Upset == upsets < MaxUpsets /\ upsets' = upsets + 1

Begin(w, c) ==
    claim' = [claim EXCEPT ![w][c] = [NoClaim EXCEPT !.stage = "sent",
                                                     !.epoch = plane[w].epoch]]

\* A call of claimNow is over, and with it the reload that awaited it.
Done(w, c) ==
    /\ claim' = [claim EXCEPT ![w][c] = NoClaim]
    /\ reload' = IF c = "reload" THEN [reload EXCEPT ![w] = NoReload] ELSE reload

-----------------------------------------------------------------------------
\* The last fast monitor is disabled, paused or deleted, or the first enabled.
FleetEdit ==
    /\ Upset
    /\ fleet' = ~ fleet
    /\ UNCHANGED <<lease, plane, reload, claim, undercut>>

\* start, up to its first reload, in a process of its own: what an earlier
\* process under this owner id still had in flight is gone with it.
Start(w) ==
    /\ ~ plane[w].up /\ ~ plane[w].stopping
    /\ plane' = [plane EXCEPT ![w] = [NewPlane EXCEPT !.up = TRUE]]
    /\ claim' = [claim EXCEPT ![w] = [c \in Call |-> NoClaim]]
    /\ UNCHANGED <<lease, fleet, reload, undercut, upsets>>

\* stop, up to its first await: timers off, claims in flight made stale ...
Stop(w) ==
    /\ plane[w].up
    /\ Upset
    /\ plane' = [plane EXCEPT ![w] = [@ EXCEPT !.up = FALSE, !.stopping = TRUE,
                                               !.epoch = NextEpoch(plane[w].epoch)]]
    /\ UNCHANGED <<lease, fleet, reload, claim, undercut>>

\* ... and once the reload in flight is over, the release, or its failure.
StopReleases(w) ==
    /\ plane[w].stopping /\ reload[w].stage = "none"
    /\ \/ lease' = ReleaseShards(w, DOMAIN plane[w].leases) /\ UNCHANGED upsets
       \/ Upset /\ UNCHANGED lease
    /\ plane' = [plane EXCEPT ![w] = [@ EXCEPT !.stopping = FALSE, !.leases = None]]
    /\ undercut' = [undercut EXCEPT ![w] = FALSE]
    /\ UNCHANGED <<fleet, reload, claim>>

\* The process dies with everything it holds in memory.
PlaneDies(w) ==
    /\ plane[w].up \/ plane[w].stopping
    /\ Upset
    /\ plane' = [plane EXCEPT ![w] = NewPlane]
    /\ reload' = [reload EXCEPT ![w] = NoReload]
    /\ claim' = [claim EXCEPT ![w] = [c \in Call |-> NoClaim]]
    /\ undercut' = [undercut EXCEPT ![w] = FALSE]
    /\ UNCHANGED <<lease, fleet>>

-----------------------------------------------------------------------------
\* trackedReload, one at a time: the database answers the discovery query.
ReloadReads(w) ==
    /\ plane[w].up /\ reload[w].stage = "none"
    /\ reload' = [reload EXCEPT ![w] = [NoReload EXCEPT !.stage = "read",
                                                        !.found = fleet]]
    /\ UNCHANGED <<lease, fleet, plane, claim, undercut, upsets>>

\* stop() ran meanwhile, or the query failed.
ReloadAbandons(w) ==
    /\ reload[w].stage = "read"
    /\ IF plane[w].up THEN Upset ELSE UNCHANGED upsets
    /\ reload' = [reload EXCEPT ![w] = NoReload]
    /\ UNCHANGED <<lease, fleet, plane, claim, undercut>>

\* Monitors and no lease: claim in this pass.
ReloadClaims(w) ==
    /\ plane[w].up /\ reload[w].stage = "read" /\ reload[w].found
    /\ Held(w) = {}
    /\ plane' = [plane EXCEPT ![w].wants = TRUE]
    /\ reload' = [reload EXCEPT ![w].stage = "claiming"]
    /\ Begin(w, "reload")
    /\ UNCHANGED <<lease, fleet, undercut, upsets>>

\* Monitors under leases held, or neither: nothing to claim or release.
ReloadContent(w) ==
    /\ plane[w].up /\ reload[w].stage = "read"
    /\ IF reload[w].found THEN Held(w) # {}
       ELSE ~ plane[w].wants /\ plane[w].leases = None
    /\ plane' = [plane EXCEPT ![w].wants = reload[w].found]
    /\ reload' = [reload EXCEPT ![w] = NoReload]
    /\ UNCHANGED <<lease, fleet, claim, undercut, upsets>>

\* No monitors: the shards are dropped from memory and claims in flight made
\* stale; with nothing in memory there is nothing to release ...
ReloadIdles(w) ==
    /\ plane[w].up /\ reload[w].stage = "read" /\ ~ reload[w].found
    /\ plane[w].wants \/ plane[w].leases # None
    /\ plane' = [plane EXCEPT ![w] = [@ EXCEPT !.wants = FALSE, !.leases = None,
                                               !.epoch = NextEpoch(plane[w].epoch)]]
    /\ reload' = [reload EXCEPT ![w] =
                    IF plane[w].leases = None THEN NoReload
                    ELSE [@ EXCEPT !.stage = "releasing",
                                   !.shards = DOMAIN plane[w].leases]]
    /\ UNCHANGED <<lease, fleet, claim, undercut, upsets>>

\* ... otherwise they are released, or that fails.
ReloadReleases(w) ==
    /\ reload[w].stage = "releasing"
    /\ \/ lease' = ReleaseShards(w, reload[w].shards) /\ UNCHANGED upsets
       \/ Upset /\ UNCHANGED lease
    /\ reload' = [reload EXCEPT ![w] = NoReload]
    /\ UNCHANGED <<fleet, plane, claim, undercut>>

-----------------------------------------------------------------------------
\* renewLeases, on its timer; nothing keeps two runs from overlapping.
RenewLeases(w, c) ==
    /\ plane[w].up /\ plane[w].wants
    /\ claim[w][c].stage = "none"
    /\ Begin(w, c)
    /\ UNCHANGED <<lease, fleet, plane, reload, undercut, upsets>>

\* claimShards' one statement, at the database.
ClaimShards(w, c) ==
    /\ claim[w][c].stage = "sent"
    /\ lease' = [s \in Shard |-> IF s \in Granted(w) THEN [owner |-> w, left |-> TTL]
                                 ELSE lease[s]]
    /\ claim' = [claim EXCEPT ![w][c] = [@ EXCEPT !.stage = "answered",
                                           !.grant = [s \in Granted(w) |-> TTL]]]
    /\ undercut' = [undercut EXCEPT ![w] = @ /\ Granted(w) # Shard]
    /\ UNCHANGED <<fleet, plane, reload, upsets>>

\* claimNow's catch: the statement or its answer is lost, the leases stay.
ClaimFails(w, c) ==
    /\ claim[w][c].stage \in {"sent", "answered"}
    /\ Upset
    /\ Done(w, c)
    /\ UNCHANGED <<lease, fleet, plane, undercut>>

\* The answer arrives in the epoch it was asked in.
ClaimNow(w, c) ==
    /\ claim[w][c].stage = "answered" /\ claim[w][c].epoch = plane[w].epoch
    /\ plane' = [plane EXCEPT ![w].leases = claim[w][c].grant]
    /\ Done(w, c)
    /\ UNCHANGED <<lease, fleet, undercut, upsets>>

\* A stale grant is handed straight back, or that fails too.
ClaimHandsBack(w, c) ==
    /\ claim[w][c].stage = "answered" /\ claim[w][c].epoch # plane[w].epoch
    /\ \/ /\ lease' = ReleaseShards(w, DOMAIN claim[w][c].grant)
          /\ undercut' = [undercut EXCEPT ![w] =
                @ \/ plane[w].leases # None
                  \/ \E d \in Call \ {c} : claim[w][d].stage = "answered"]
          /\ UNCHANGED upsets
       \/ /\ Upset
          /\ UNCHANGED <<lease, undercut>>
    /\ Done(w, c)
    /\ UNCHANGED <<fleet, plane>>

Older(n, least) == IF n <= least THEN n ELSE n - 1

\* To the database a lease has lapsed or not; a worker behind still counts.
Aged(grant) == [s \in DOMAIN grant |-> Older(grant[s], - Lag)]

\* One unit of time.
Clock ==
    /\ lease' = [s \in Shard |-> [lease[s] EXCEPT !.left = Older(@, -1)]]
    /\ plane' = [w \in Worker |-> [plane[w] EXCEPT !.leases = Aged(@)]]
    /\ claim' = [w \in Worker |-> [c \in Call |-> [claim[w][c] EXCEPT !.grant = Aged(@)]]]
    /\ UNCHANGED <<fleet, reload, undercut, upsets>>

-----------------------------------------------------------------------------
ReloadStep(w) ==
    \/ ReloadReads(w) \/ ReloadAbandons(w) \/ ReloadClaims(w)
    \/ ReloadContent(w) \/ ReloadIdles(w) \/ ReloadReleases(w)

ClaimNowStep(w, c) ==
    \/ ClaimShards(w, c) \/ ClaimFails(w, c) \/ ClaimNow(w, c) \/ ClaimHandsBack(w, c)

LeaseNext ==
    \/ FleetEdit \/ Clock
    \/ \E w \in Worker :
         \/ Start(w) \/ Stop(w) \/ StopReleases(w) \/ PlaneDies(w)
         \/ ReloadStep(w)
         \/ \E c \in Call : ClaimNowStep(w, c)
         \/ \E c \in Renewal : RenewLeases(w, c)

LeaseSpec == LeaseInit /\ [][LeaseNext]_leaseVars

-----------------------------------------------------------------------------
Grants == UNION {[S -> Left] : S \in SUBSET Shard}

\* The lease table and the planes' memory keep their shape.
LeaseTypeOK ==
    /\ lease \in [Shard -> [owner : Worker \cup {Nobody}, left : Left]]
    /\ fleet \in BOOLEAN
    /\ plane \in [Worker -> [up : BOOLEAN, stopping : BOOLEAN, wants : BOOLEAN,
                             epoch : Nat, leases : Grants]]
    /\ reload \in [Worker -> [stage : {"none", "read", "claiming", "releasing"},
                              found : BOOLEAN, shards : SUBSET Shard]]
    /\ claim \in [Worker -> [Call -> [stage : {"none", "sent", "answered"},
                                      epoch : Nat, grant : Grants]]]
    /\ undercut \in [Worker -> BOOLEAN]
    /\ upsets \in Nat

\* What a worker may probe on a grant the database has let lapse: its own clock,
\* behind the database's, has not reached the end of it.
Overrun(w) == {s \in MayProbe(w) : plane[w].leases[s] < 0}

\* tick() fences on memory, every other plane on the table.  Until the database
\* lets the grant lapse, a shard a worker believes it holds is its own in the
\* table, for at least as long, whatever the clocks; unless the worker has itself
\* handed back a stale grant over a newer one.
MemoryBacked ==
    \A w \in Worker : \A s \in MayProbe(w) \ Overrun(w) :
        \/ undercut[w]
        \/ lease[s].owner = w /\ lease[s].left >= plane[w].leases[s]

\* Whatever was in flight when a plane went idle, stopped, died or lost an answer,
\* two workers may probe a shard only while the clock of one of them, behind the
\* database's, hides from it that its grant has lapsed: never with clocks that
\* are not behind, and never for longer than the clock is behind.
ProbeExclusive ==
    \A w, v \in Worker :
        w # v => \/ MayProbe(w) \cap MayProbe(v) \subseteq Overrun(w) \cup Overrun(v)
                 \/ undercut[w] \/ undercut[v]

\* What claimShards promises of clocks a minute apart (leases.ts:42): they cannot
\* produce two owners of one shard.  It does not hold: holdsShards reads the
\* expiry, stamped by the database, with the worker's own clock.
OneOwner ==
    \A w, v \in Worker :
        w # v => \/ MayProbe(w) \cap MayProbe(v) = {}
                 \/ undercut[w] \/ undercut[v]
=============================================================================
