--------------------------- MODULE DeviceCounters ---------------------------
(***************************************************************************)
(* What the Windows sampler knows of the machine's devices on each tick:   *)
(* the demand-gated PDH query groups (perfcounters.rs), the adapters of    *)
(* the GPU cards and the GPU share of every process (gpu.rs, collect_gpus),*)
(* the location-gated Wi-Fi facts (collect_wifi), the network rates        *)
(* (collect_networks) and the disk cards (collect_disks).                  *)
(*                                                                         *)
(* The five are independent of each other, so a behaviour follows one of   *)
(* them, chosen in Init (variable part). One step is one sampling tick     *)
(* together with what the machine and the user did since the last one.     *)
(***************************************************************************)
EXTENDS Integers, FiniteSets, FiniteSetsExt, Functions

CONSTANTS
    Keepalive,   \* KEEPALIVE in ticks
    Reprobe,     \* GPU_REPROBE_INTERVAL in ticks
    WifiTtl,     \* WIFI_META_TTL in ticks
    Luids,       \* adapters the machine can have ...
    Software,    \* ... those of them that are software renderers
    GpuApps,     \* processes that use a GPU
    GpuEngines,  \* physical engines of each adapter
    Nics,        \* network adapters
    MaxOctets,   \* bytes an adapter's counter can reach
    DiskNos,     \* physical disks, numbered
    Mounts,      \* mounted volumes
    NotYet       \* Option::None

ASSUME DeviceAssumption ==
    /\ {Keepalive, Reprobe, WifiTtl, MaxOctets} \subseteq Nat
    /\ Software \subseteq Luids /\ DiskNos \subseteq Nat
    \* A drive's name is no mount point, and no enumeration is None.
    /\ DiskNos \cap Mounts = {} /\ \A found \in SUBSET Luids : found # NotYet
    /\ IsFiniteSet(Luids \cup GpuApps \cup Nics \cup Mounts)

VARIABLES
    part,    \* the device this behaviour follows
    wants,   \* the demand bit of this tick (TelemetryDemand)
    idle,    \* ghost: ticks the bit has been off, up to Keepalive + 1
    pdh,     \* group: the QueryGroup and its failed flag
    raw,     \* group, ghost: successful collections of the open query; tries to open
    dxgi,    \* gpu: adapters present, gpu_adapters and gpu_probed_at
    cards,   \* gpu: utilisation of the cards and of the processes
    missed,  \* gpu, ghost: ticks an enumerable adapter was counted and not shown
    wifi,    \* wifi: age of wifi_cache, and whether this tick's rows show it
    nic,     \* net: counters, prev_net_totals, rates, ghost bytes of the last tick
    disks    \* disk: the cards of this tick

deviceVars == <<part, wants, idle, pdh, raw, dxgi, cards, missed, wifi, nic, disks>>

Parts == {"group", "gpu", "wifi", "net", "disk"}

-----------------------------------------------------------------------------
(***************************************************************************)
(* QueryGroup: one lazily opened PDH query. age is last_needed.elapsed().  *)
(***************************************************************************)
NewGroup(strict) == [open |-> FALSE, counters |-> FALSE, done |-> 0, warm |-> FALSE,
                     age |-> 0, failed |-> FALSE, strict |-> strict]

OpenCounterGroup(g, opens, some) ==
    IF opens THEN [g EXCEPT !.open = TRUE, !.counters = some, !.done = 0, !.warm = FALSE]
             ELSE g

CloseGroup(g) ==
    [g EXCEPT !.open = FALSE, !.counters = FALSE, !.done = 0, !.warm = FALSE]

\* wake: a group that cannot be opened is given up for the session.
Wake(g, opens, some) ==
    IF g.open THEN g
    ELSE LET o == OpenCounterGroup(g, opens, some)
         IN  [o EXCEPT !.failed = ~o.open \/ (o.strict /\ ~o.counters)]

\* collect: last_needed is stamped before the query is asked.
Collect(g, ok) ==
    CASE ~g.open -> g
      [] g.open /\ ~ok -> [g EXCEPT !.age = 0]
      [] OTHER -> [g EXCEPT !.age = 0, !.done = Min({2, @ + 1}), !.warm = g.done >= 1]

MaybeSleep(g, need) ==
    CASE need -> [g EXCEPT !.age = 0]
      [] ~need /\ g.open /\ g.age > Keepalive -> CloseGroup(g)
      [] OTHER -> g

\* The read_* functions answer only for an open, warm group.
Readable(g) == g.open /\ g.warm

\* PdhCounters::tick, for one group.
GroupTick ==
    /\ part = "group"
    /\ \E bit, opens, some, ok \in BOOLEAN :
        LET want  == bit /\ ~pdh.failed
            aged  == [pdh EXCEPT !.age = Min({Keepalive + 1, @ + 1})]
            woken == IF want THEN Wake(aged, opens, some) ELSE aged
            asked == Collect(woken, ok)
        IN  /\ wants' = bit
            /\ idle' = IF bit THEN 0 ELSE Min({Keepalive + 1, idle + 1})
            /\ pdh' = MaybeSleep(asked, want)
            /\ raw' = [got   |-> IF ~pdh'.open THEN 0
                                 ELSE Min({2, (IF pdh.open THEN raw.got ELSE 0)
                                                + (IF ok THEN 1 ELSE 0)}),
                       tries |-> Min({2, raw.tries +
                                     (IF want /\ ~pdh.open /\ ~opens THEN 1 ELSE 0)})]
    /\ UNCHANGED <<part, dxgi, cards, missed, wifi, nic, disks>>

-----------------------------------------------------------------------------
(***************************************************************************)
(* The GPU cards. A record is one process's share of one engine of one     *)
(* adapter; loads are 0 or 1, and 1 is a whole engine.                     *)
(***************************************************************************)
Records == GpuApps \X Luids \X GpuEngines

\* filter_adapters
FilterAdapters(found) ==
    IF \E l \in found : l \notin Software THEN found \ Software ELSE found

\* engine_loads and merge: shares of one engine add up, engines do not.
EngineLoad(busy, l, e) == Min({1, Cardinality({a \in GpuApps : <<a, l, e>> \in busy})})

AdapterLoad(busy, l) == Max({0} \cup {EngineLoad(busy, l, e) : e \in GpuEngines})

\* process_gpu_view: the busiest engine, over the adapters that are shown.
ProcessLoad(shown, busy, a) ==
    Max({0} \cup {1 : r \in {b \in busy : b[1] = a /\ b[2] \in shown}})

\* collect_gpus: enumerate on first use, and again for an unknown LUID.
ProbeDue(known, since, asked, named) ==
    \/ known = NotYet /\ asked
    \/ known # NotYet /\ since >= Reprobe /\ ~(named \subseteq known)

\* adapters(): the enumeration, or nothing when the factory cannot be made.
Enumerated(present, works) == IF works THEN present ELSE {}

Machine ==
    {dxgi.present} \cup {dxgi.present \cup {l} : l \in Luids}
                   \cup {dxgi.present \ {l} : l \in Luids}

GpuTick ==
    /\ part = "gpu"
    /\ \E bit, works \in BOOLEAN, present \in Machine :
       \E busy \in SUBSET {r \in Records : r[2] \in present} :
        LET named == IF bit THEN present ELSE {}
            load  == IF bit THEN busy ELSE {}
            since == Min({Reprobe, dxgi.since + 1})
            due   == ProbeDue(dxgi.known, since, bit, named)
            known == IF due THEN Enumerated(present, works) ELSE dxgi.known
            shown == IF known = NotYet THEN {} ELSE FilterAdapters(known)
        IN  /\ wants' = bit
            /\ dxgi' = [present |-> present, known |-> known,
                        since |-> IF due THEN 0 ELSE since]
            /\ cards' = [adapters |-> [l \in shown |-> AdapterLoad(load, l)],
                         apps |-> [a \in GpuApps |-> ProcessLoad(shown, load, a)]]
            /\ missed' = [l \in Luids |->
                            IF \/ l \notin named \/ (due /\ ~works)
                               \/ known # NotYet /\ l \in known
                            THEN 0 ELSE Min({Reprobe + 1, missed[l] + 1})]
    /\ UNCHANGED <<part, idle, pdh, raw, wifi, nic, disks>>

-----------------------------------------------------------------------------
(***************************************************************************)
(* The Wi-Fi facts and the network rates.                                  *)
(***************************************************************************)
\* wifi_collection_due
WifiDue(bit, age) == bit /\ (age = NotYet \/ age >= WifiTtl)

\* Mutant: an unwanted answer is merely not refreshed.
WifiCacheKept(bit, age) == IF WifiDue(bit, age) THEN 0 ELSE age

\* collect_wifi: the cache of this tick; without demand it is dropped.
WifiCache(bit, age) ==
    CASE WifiDue(bit, age) -> 0
      [] ~bit -> NotYet
      [] OTHER -> age

WifiTick ==
    /\ part = "wifi"
    /\ \E bit \in BOOLEAN :
        LET aged == IF wifi.age = NotYet THEN NotYet ELSE Min({WifiTtl, wifi.age + 1})
        IN  /\ wants' = bit
            /\ wifi' = [age |-> WifiCache(bit, aged),
                        shown |-> WifiCache(bit, aged) # NotYet,
                        asked |-> WifiDue(bit, aged)]
    /\ UNCHANGED <<part, idle, pdh, raw, dxgi, cards, missed, nic, disks>>

\* prev_net_totals after a tick: only the adapters listed on it.
Remembered(prev, totals, listed) == [n \in listed |-> totals[n]]

NetTick ==
    /\ part = "net"
    /\ \E listed \in SUBSET Nics, totals \in [Nics -> 0..MaxOctets] :
        \* A counter grows, or starts again when the adapter is set up anew.
        LET moved == [n \in Nics |-> IF totals[n] >= nic.totals[n]
                                     THEN totals[n] - nic.totals[n] ELSE totals[n]]
        IN  nic' = [totals |-> totals, moved |-> moved, first |-> FALSE,
                    prev  |-> Remembered(nic.prev, totals, listed),
                    rates |-> [n \in listed |->
                                 IF n \in DOMAIN nic.prev /\ ~nic.first
                                 THEN Max({0, totals[n] - nic.prev[n]}) ELSE 0]]
    /\ UNCHANGED <<part, wants, idle, pdh, raw, dxgi, cards, missed, wifi, disks>>

-----------------------------------------------------------------------------
(***************************************************************************)
(* The disk cards. An instance of the counters is a disk number with the   *)
(* volumes on it; a disk without volumes is keyed by its number.           *)
(***************************************************************************)

MountOf(number, members) == IF members = {} THEN number ELSE CHOOSE v \in members : TRUE

\* Mutant: a volume no counter claims has no card.
UnclaimedNone(instances) == {}

Unclaimed(instances) ==
    {[number |-> NotYet, mount |-> v, on |-> {v}, active |-> FALSE] :
        v \in Mounts \ UNION Range(instances)}

Cards(instances) ==
    {[number |-> d, mount |-> MountOf(d, instances[d]), on |-> instances[d],
      active |-> TRUE] : d \in DOMAIN instances} \cup Unclaimed(instances)

DiskTick ==
    /\ part = "disk"
    /\ \E counted \in SUBSET DiskNos : \E instances \in [counted -> SUBSET Mounts] :
        /\ \A d, e \in counted : d # e => instances[d] \cap instances[e] = {}
        /\ disks' = Cards(instances)
    /\ UNCHANGED <<part, wants, idle, pdh, raw, dxgi, cards, missed, wifi, nic>>

-----------------------------------------------------------------------------
DeviceInit ==
    /\ part \in Parts
    /\ wants = FALSE /\ idle = 0
    /\ \E strict \in BOOLEAN : pdh = NewGroup(strict)
    /\ raw = [got |-> 0, tries |-> 0]
    /\ dxgi = [present |-> Luids \cap Software, known |-> NotYet, since |-> Reprobe]
    /\ cards = [adapters |-> [l \in {} |-> 0], apps |-> [a \in GpuApps |-> 0]]
    /\ missed = [l \in Luids |-> 0]
    /\ wifi = [age |-> NotYet, shown |-> FALSE, asked |-> FALSE]
    /\ nic = [totals |-> [n \in Nics |-> 0], moved |-> [n \in Nics |-> 0], first |-> TRUE,
              prev |-> [n \in {} |-> 0], rates |-> [n \in {} |-> 0]]
    /\ disks = Unclaimed([d \in {} |-> {}])

DeviceNext == GroupTick \/ GpuTick \/ WifiTick \/ NetTick \/ DiskTick

DeviceSpec == DeviceInit /\ [][DeviceNext]_deviceVars

-----------------------------------------------------------------------------
\* A rate counter needs two samples: whatever the page and the failures did,
\* a group answers only when its query, as it is open now, was collected
\* twice (QueryGroup::collect, warm).
WarmBeforeRead == part = "group" /\ Readable(pdh) => raw.got >= 2

\* A group that cannot be opened is not tried again on every tick (wake,
\* gpu_failed and its siblings).
OpenTriedOnce == raw.tries <= 1

\* No process uses more GPU than the busiest card the machine's total is
\* taken from, whichever adapters come and go (process_gpu_view over the
\* merged set).
ProcessWithinTotal ==
    \A a \in GpuApps :
        cards.apps[a] <= Max({0} \cup Range(cards.adapters))

\* An adapter that arrives later, or returns under a new LUID, is known once
\* the re-probe interval has passed (collect_gpus).
GpuFound == \A l \in Luids : missed[l] <= Reprobe

\* The SSID is neither asked for nor shown on a tick that does not demand it,
\* the tick after the user withdrew the consent included (collect_wifi).
WifiGated == part = "wifi" /\ (wifi.shown \/ wifi.asked) => wants

\* A network rate is no more than what the adapter moved since the last tick,
\* for one that was away or was reset too (collect_networks).
NetRateTrue == \A n \in DOMAIN nic.rates : nic.rates[n] <= nic.moved[n]

\* Every mounted volume is on exactly one card, with or without counters, and
\* no two cards share the key the page tells them apart by (collect_disks).
CardsApart ==
    part = "disk" =>
        /\ \A v \in Mounts : Cardinality({c \in disks : v \in c.on}) = 1
        /\ \A c, e \in disks : c.mount = e.mount => c = e

\* A group nobody has asked for during the keep-alive is closed: "Tear down
\* when demand has been gone for longer than the keep-alive" (maybe_sleep).
SleepsWithoutDemand == part = "group" /\ idle > Keepalive => ~pdh.open

\* Device counters: no rate from one collection, a process uses no more than the adapter,
\* a returned adapter is found, Wi-Fi details need consent and demand, and a rate
\* compares two readings of one adapter.
CountersSound ==
  /\ WarmBeforeRead /\ OpenTriedOnce /\ ProcessWithinTotal /\ GpuFound /\ WifiGated
  /\ NetRateTrue /\ CardsApart
=============================================================================
