------------------------------- MODULE Kqueue -------------------------------
(***************************************************************************)
(* co_epoll.cpp where there is no epoll (macOS, FreeBSD): epoll's calls    *)
(* made from kqueue's.  An fd has one kevent_pair_t, found through a map;  *)
(* the kernel keeps up to two filters for the fd, whose udata is the pair; *)
(* when both fire, co_epoll_wait() makes one event of them.                *)
(*                                                                         *)
(* One thread.  The kernel's side is external: it fires filters in any     *)
(* order, and it refuses a filter (the fd is closed, or a pipe's other end *)
(* is).  Nobody closes an fd while it is polled: the kernel would forget   *)
(* its filters, and the map would not.  What a filter with a freed pair    *)
(* makes co_epoll_wait() do is undefined; here such a filter does not fire.*)
(***************************************************************************)
EXTENDS Integers, Sequences, FiniteSets, SequencesExt

CONSTANTS
    PolledFds,
    MaxPairs    \* calls of calloc() for pairs; pairs are numbered

ASSUME KqueueAssumption == MaxPairs \in Nat

VARIABLES
    fdMap,      \* clsFdMap: the pair of an fd, or 0
    pair,       \* events and u64 of each pair
    alive,      \* pairs that are allocated
    filters,    \* the kernel's: udata of an fd's filters, or 0
    slots,      \* events of co_epoll_res
    ret,        \* what co_epoll_wait() returned, until the event loop has read the slots;
                \* nothing else runs before that
    fired,      \* history: the filters that it got
    halfAdded   \* history: the kernel took the first filter of an fd and refused the second

kqVars == <<fdMap, pair, alive, filters, slots, ret, fired, halfAdded>>

Filter == {"IN", "OUT"}

\* PollEvent2Epoll(): EPOLLWRNORM is EPOLLOUT here.
PollEvent2Epoll(events) ==
    {IF e = "WRNORM" THEN "OUT" ELSE e : e \in events \cap {"IN", "OUT", "HUP", "ERR", "RDNORM", "WRNORM"}}

\* EpollEvent2Poll()
EpollEvent2Poll(events) == events \cup (IF "OUT" \in events THEN {"WRNORM"} ELSE {})

NewPair == Cardinality({p \in DOMAIN pair : pair[p].events # {}}) + 1

\* clsFdMap
get(fd) == fdMap[fd]
set(fd, ptr) == fdMap' = [fdMap EXCEPT ![fd] = ptr]
clear(fd) == set(fd, 0)

\* mutant: the filter for writing stays
MutDeleted(fd) == [filters EXCEPT ![fd]["IN"] = 0]

\* kevent() with EV_DELETE for each filter that the pair says there is.
Deleted(fd) ==
    [filters EXCEPT ![fd] = [d \in Filter |-> IF d \in pair[get(fd)].events THEN 0 ELSE @[d]]]

co_epoll_del(fd) ==
    /\ ret = 0 /\ get(fd) # 0
    /\ filters' = Deleted(fd)
    /\ alive' = alive \ {get(fd)}
    /\ clear(fd)
    /\ UNCHANGED <<pair, slots, ret, fired, halfAdded>>

\* What the kernel takes of the filters in want, reading first; refused is the
\* one that it does not take, or "none".
KernelTakes(want, refused) ==
    IF refused = "IN" THEN {} ELSE (want \cap Filter) \ {refused}

\* co_epoll_ctl() with EPOLL_CTL_ADD or EPOLL_CTL_MOD.  Flags that it does not
\* know, an fd that is there already (EEXIST) or is not (ENOENT) change nothing.
co_epoll_ctl(op, fd, ev, u64, refused) ==
    /\ ret = 0
    /\ ev \subseteq {"IN", "OUT", "ERR", "HUP"}
    /\ op = "ADD" => get(fd) = 0 /\ NewPair <= MaxPairs
    /\ op = "MOD" => get(fd) # 0
    /\ refused \in ev \cup {"none"}
    /\ LET ptr == IF get(fd) = 0 THEN NewPair ELSE get(fd)
           rest == IF op = "MOD" THEN Deleted(fd) ELSE filters
       IN  /\ filters' = [rest EXCEPT ![fd] =
                            [d \in Filter |-> IF d \in KernelTakes(ev, refused) THEN ptr ELSE @[d]]]
           /\ pair' = [pair EXCEPT ![ptr] = [events |-> ev, u64 |-> u64]]
           /\ IF refused = "none"
              THEN set(fd, ptr) /\ alive' = alive \cup {ptr}
              ELSE clear(fd) /\ alive' = alive \ {ptr}
    /\ halfAdded' = (halfAdded \/ (refused = "OUT" /\ "IN" \in ev))
    /\ UNCHANGED <<slots, ret, fired>>

\* mutant: a filter finds the event of its pair at the wrong place
MutFireIdx(kevs, i) == i

\* fire_idx - 1 of the pair of the i-th filter: where its event is.
FireIdx(kevs, i) ==
    CHOOSE k \in 1 .. i : /\ kevs[k].udata = kevs[i].udata
                          /\ \A m \in 1 .. k - 1 : kevs[m].udata # kevs[i].udata

\* co_epoll_wait(): the kernel gives the filters in kevs; j counts pairs.
co_epoll_wait(kevs) ==
    LET first == {i \in DOMAIN kevs : FireIdx(kevs, i) = i}
    IN  /\ ret = 0
        /\ slots' = [i \in DOMAIN slots |->
               IF i \in first
               THEN [events |-> {kevs[k].filter : k \in {m \in DOMAIN kevs : FireIdx(kevs, m) = i}},
                     u64 |-> pair[kevs[i].udata].u64]
               ELSE slots[i]]
        /\ ret' = Cardinality(first)
        /\ fired' = kevs
        /\ UNCHANGED <<fdMap, pair, alive, filters, halfAdded>>

\* An event that the current call did not write: what is in it is of an earlier
\* call, whichever.
OldSlots == [i \in 1 .. 2 * Cardinality(PolledFds) |-> [events |-> {}, u64 |-> 0]]

\* The event loop has gone through the events.
EventsRead ==
    /\ ret > 0
    /\ ret' = 0 /\ fired' = <<>> /\ slots' = OldSlots
    /\ UNCHANGED <<fdMap, pair, alive, filters, halfAdded>>

\* Filters that can fire, in any order.
Ready == {[udata |-> filters[f[1]][f[2]], filter |-> f[2]] :
             f \in {g \in PolledFds \X Filter : filters[g[1]][g[2]] \in alive}}

Orders(S) == {s \in UNION {[1 .. n -> S] : n \in 1 .. Cardinality(S)} :
                 \A i, j \in DOMAIN s : i # j => s[i] # s[j]}

\* co_epoll_res_alloc(): room for every event.
KqueueInit ==
    /\ fdMap = [fd \in PolledFds |-> 0]
    /\ pair = [p \in 1 .. MaxPairs |-> [events |-> {}, u64 |-> 0]]
    /\ alive = {}
    /\ filters = [fd \in PolledFds |-> [d \in Filter |-> 0]]
    /\ slots = OldSlots
    /\ ret = 0 /\ fired = <<>> /\ halfAdded = FALSE

\* co_poll_inner() gives the address of its item for u64: a new one each time.
KqueueNext ==
    \/ \E fd \in PolledFds :
        \/ co_epoll_del(fd)
        \/ \E op \in {"ADD", "MOD"}, events \in {{"IN"}, {"WRNORM"}, {"IN", "OUT", "ERR"}, {"RDNORM"}},
              refused \in Filter \cup {"none"} :
              co_epoll_ctl(op, fd, PollEvent2Epoll(events), NewPair, refused)
    \/ \E kevs \in Orders(Ready) : co_epoll_wait(kevs)
    \/ EventsRead

(***************************************************************************)
(* Properties.                                                             *)
(***************************************************************************)
\* An fd that is polled has exactly the filters that were asked for, and they carry
\* its pair, however ADD, MOD and DEL follow each other; no filter carries a freed
\* pair, unless the kernel took the first filter of an fd and refused the second:
\* then co_epoll_ctl() frees the pair and leaves the first one with it.
FiltersOwned ==
    /\ \A fd \in PolledFds : fdMap[fd] # 0 =>
         /\ fdMap[fd] \in alive
         /\ {d \in Filter : filters[fd][d] = fdMap[fd]} = pair[fdMap[fd]].events \cap Filter
    /\ \A fd \in PolledFds, d \in Filter : filters[fd][d] # 0 =>
         filters[fd][d] = fdMap[fd] \/ (halfAdded /\ filters[fd][d] \notin alive)

\* A filter follows both filters of another fd.
Overtaken == \E i, k, m \in DOMAIN fired :
    i < k /\ k < m /\ fired[i].udata = fired[k].udata /\ FireIdx(fired, m) = m

\* The events that co_epoll_wait() counts tell of every fd that is ready, each once,
\* and all that it is ready for.  It counts fds but writes at the place of the filter,
\* so this is so only if no filter follows both filters of another fd: then the caller
\* reads a slot of an earlier call instead of the last event.
EventsTold ==
    ret > 0 /\ ~Overtaken =>
        {<<slots[i].u64, EpollEvent2Poll(slots[i].events)>> : i \in 1 .. ret}
          = {<<pair[p].u64, EpollEvent2Poll({fired[i].filter : i \in {m \in DOMAIN fired : fired[m].udata = p}})>> :
               p \in {fired[i].udata : i \in DOMAIN fired}}

KqueueSound == FiltersOwned /\ EventsTold
=============================================================================
