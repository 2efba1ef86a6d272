---------------------------- MODULE FetchControl ----------------------------
(***************************************************************************)
(* Fetches of one track: ClientManager answers each on a thread of its     *)
(* own, from the cache where it can and from the publisher where it        *)
(* cannot, while objects go on arriving, groups expire, clients cancel and *)
(* publishers answer late or never.                                        *)
(*                                                                         *)
(* The cache maps a group to the set of its objects.  A fetch holds        *)
(* pointers to these sets, not copies: what is cached later in one of its  *)
(* groups is seen by it, unless the group has expired meanwhile.           *)
(***************************************************************************)
EXTENDS Naturals, Sequences, SequencesExt, FiniteSetsExt

CONSTANTS
    Request,     \* <<connection, request id>> of the fetches
    MaxGroup,    \* bound: groups are 1..MaxGroup
    MaxObject    \* bound: objects of a group are 0..MaxObject

ASSUME FetchAssumption == MaxGroup \in Nat /\ MaxObject \in Nat

VARIABLES
    cache,      \* [cached groups -> their objects]
    fetch,      \* [Request -> the fetch, NoFetch before it comes in]
    view,       \* [Request -> [groups it points to -> their objects]]
    shared,     \* [Request -> those of its groups that are still cached]
    stop,       \* stop_fetch_: [Request -> flag, "absent" without one]
    status,     \* [Request -> status of the handler that asks the publisher]
    cancelled   \* history: the fetches that their client has cancelled

fetchVars == <<cache, fetch, view, shared, stop, status, cancelled>>

Group == 1..MaxGroup
Object == 0..MaxObject
Location == Group \X Object
NoObject == MaxObject + 1       \* an end location without an object
Ends == Group \X (Object \cup {NoObject})

Before(a, b) ==
    \/ a[1] < b[1]
    \/ a[1] = b[1] /\ a[2] < b[2]

NoFetch == [pc |-> "none"]

\* The locations of a function from groups to objects.
Locations(c) == UNION {{<<g, o>> : o \in c[g]} : g \in DOMAIN c}

InRange(f, l) ==
    /\ ~ Before(l, f.start)
    /\ \/ l[1] < f.end[1]
       \/ l[1] = f.end[1] /\ (f.end[2] = NoObject \/ l[2] <= f.end[2])

-----------------------------------------------------------------------------
FetchInit ==
    /\ cache = <<>>
    /\ fetch = [r \in Request |-> NoFetch]
    /\ view = [r \in Request |-> <<>>]
    /\ shared = [r \in Request |-> {}]
    /\ stop = [r \in Request |-> "absent"]
    /\ status = [r \in Request |-> "kNotSubscribed"]
    /\ cancelled = {}

\* GetLargestAvailable: the last object of the last group.
GetLargestAvailable == CHOOSE l \in Locations(cache) :
    \A k \in Locations(cache) : ~ Before(l, k)

\* FetchReceived, on the callback: the reason code decides between cache and
\* publisher, and the thread starts.
FetchReceived(r, start, end) ==
    LET groups == {g \in DOMAIN cache : start[1] <= g /\ g <= end[1]}
        reason == IF Locations(cache) = {} THEN "kNoObjects"
                  ELSE IF start[1] > end[1] \/ GetLargestAvailable[1] < start[1]
                  THEN "kInvalidRange"
                  ELSE IF groups = {} THEN "kNoObjects" ELSE "kOk"
        f      == [pc |-> IF reason = "kOk" THEN "cache" ELSE "publisher",
                   start |-> start, end |-> end, reason |-> reason, pos |-> <<0, 0>>,
                   response |-> "none", sent |-> <<>>, owed |-> {}]
    IN  /\ fetch[r] = NoFetch
        /\ fetch' = [fetch EXCEPT ![r] =
                        [f EXCEPT !.owed = {l \in Locations(cache) : InRange(f, l)}]]
        /\ view' = [view EXCEPT ![r] = [g \in groups |-> cache[g]]]
        /\ shared' = [shared EXCEPT ![r] = groups]
        /\ stop' = [stop EXCEPT ![r] = IF @ = "absent" THEN "no" ELSE @]
        /\ UNCHANGED <<cache, status, cancelled>>

\* JoiningFetchReceived, relative to the largest group or not: an error without
\* objects, otherwise a fetch up to the end of the largest group.
JoiningFetchReceived(r, relative, start) ==
    /\ fetch[r] = NoFetch
    /\ IF Locations(cache) = {}
       THEN /\ fetch' = [fetch EXCEPT ![r] =
                  [pc |-> "done", reason |-> "kInvalidRange", response |-> "kInvalidRange"]]
            /\ UNCHANGED <<cache, view, shared, stop, status, cancelled>>
       ELSE LET largest == GetLargestAvailable[1]
                from    == IF ~relative THEN start
                           ELSE IF largest > start THEN largest - start ELSE 0
            IN  FetchReceived(r, <<from, 0>>, <<largest, NoObject>>)

\* FetchCancelReceived sets the flag only where there is none.
FetchCancelReceived(r) ==
    /\ r \notin cancelled
    /\ cancelled' = cancelled \cup {r}
    /\ stop' = [stop EXCEPT ![r] = IF @ = "absent" THEN "yes" ELSE @]
    /\ UNCHANGED <<cache, fetch, view, shared, status>>

-----------------------------------------------------------------------------
(***************************************************************************)
(* The thread of a fetch                                                   *)
(***************************************************************************)
At(r, pc) == fetch[r].pc = pc

\* The cache is used: the client is told first.
ResolveFromCache(r) ==
    /\ At(r, "cache")
    /\ fetch' = [fetch EXCEPT ![r].pc = "sending", ![r].response = "kOk"]
    /\ UNCHANGED <<cache, view, shared, stop, status, cancelled>>

\* The objects that the loops have not come to.
Rest(r) == {l \in Locations(view[r]) : Before(fetch[r].pos, l)}

\* Bug for the mutation runs: objects before the start are sent too.
SendObjectFromGroup(r) ==
    LET l == CHOOSE l \in Rest(r) : \A k \in Rest(r) : ~ Before(k, l)
    IN  /\ At(r, "sending")
        /\ fetch' = [fetch EXCEPT ![r] =
             IF Rest(r) = {} THEN [@ EXCEPT !.pc = "done"]
             ELSE [@ EXCEPT !.pos = l, !.sent = Append(@, l)]]
        /\ UNCHANGED <<cache, view, shared, stop, status, cancelled>>

\* One round of the loops over groups and objects.
SendObject(r) ==
    LET f == fetch[r]
        l == CHOOSE l \in Rest(r) : \A k \in Rest(r) : ~ Before(k, l)
        stopped == Rest(r) # {} /\ stop[r] = "yes"
    IN  /\ At(r, "sending")
        /\ fetch' = [fetch EXCEPT ![r] =
             CASE Rest(r) = {}        -> [f EXCEPT !.pc = "done"]
               [] stopped             -> [f EXCEPT !.pc = "stopped"]
               [] OTHER ->
                  IF Before(l, f.start) THEN [f EXCEPT !.pos = l]
                  ELSE IF ~ InRange(f, l) THEN [f EXCEPT !.pc = "done"]
                  ELSE [f EXCEPT !.pos = l, !.sent = Append(@, l)]]
        /\ stop' = IF stopped THEN [stop EXCEPT ![r] = "absent"] ELSE stop
        /\ UNCHANGED <<cache, view, shared, status, cancelled>>

\* The first publisher in pub_subscribes is asked, if it is a client.  If it is a
\* peer, the client gets the error of the cache, and if there is none, that or
\* no objects, as the next track of pub_subscribes is none or another.
FetchTrack(r) ==
    /\ At(r, "publisher")
    /\ \/ /\ status' = [status EXCEPT ![r] = "kPendingResponse"]
          /\ fetch' = [fetch EXCEPT ![r].pc = "waiting"]
       \/ /\ \E rc \in {fetch[r].reason, "kNoObjects"} :
                fetch' = [fetch EXCEPT ![r].pc = "draining", ![r].response = rc]
          /\ UNCHANGED status
    /\ UNCHANGED <<cache, view, shared, stop, cancelled>>

\* Bug for the mutation runs: the wait for the publisher has no end.
ResolveFromPublisherPatiently(r) ==
    /\ At(r, "waiting")
    /\ status[r] # "kPendingResponse"
    /\ fetch' = [fetch EXCEPT ![r].pc = "draining", ![r].response = "kOk"]
    /\ UNCHANGED <<cache, view, shared, stop, status, cancelled>>

\* The publisher has answered, or kFetchUpstreamMaxWaitMs have passed.
ResolveFromPublisher(r) ==
    /\ At(r, "waiting")
    /\ fetch' = [fetch EXCEPT ![r].pc = "draining", ![r].response =
          CASE status[r] \in {"kOk", "kDoneByFin"} -> "kOk"
            [] status[r] = "kError"                -> "kNoObjects"
            [] OTHER                               -> "kInternalError"]
    /\ UNCHANGED <<cache, view, shared, stop, status, cancelled>>

\* The thread waits while the handler is kOk, then two seconds more, and ends
\* with CancelFetchTrack.
CancelFetchTrack(r) ==
    /\ At(r, "draining") /\ status[r] # "kOk"
    /\ fetch' = [fetch EXCEPT ![r].pc = "done"]
    /\ UNCHANGED <<cache, view, shared, stop, status, cancelled>>

Thread(r) ==
    \/ ResolveFromCache(r) \/ SendObject(r) \/ FetchTrack(r)
    \/ ResolveFromPublisher(r) \/ CancelFetchTrack(r)

-----------------------------------------------------------------------------
(***************************************************************************)
(* The rest of the relay                                                   *)
(***************************************************************************)

\* The part of SubscribeTrackHandler::ObjectReceived that caches the object.
ObjectCached(g, o) ==
    /\ <<g, o>> \notin Locations(cache)
    /\ cache' = [k \in DOMAIN cache \cup {g} |->
                    (IF k \in DOMAIN cache THEN cache[k] ELSE {})
                    \cup (IF k = g THEN {o} ELSE {})]
    /\ view' = [r \in Request |-> [k \in DOMAIN view[r] |->
                    IF k = g /\ g \in shared[r] THEN view[r][k] \cup {o} ELSE view[r][k]]]
    /\ UNCHANGED <<fetch, shared, stop, status, cancelled>>

\* A group's time in the cache is over.
Expire(g) ==
    /\ g \in DOMAIN cache
    /\ cache' = [k \in DOMAIN cache \ {g} |-> cache[k]]
    /\ shared' = [r \in Request |-> shared[r] \ {g}]
    /\ UNCHANGED <<fetch, view, stop, status, cancelled>>

\* The publisher of a fetch answers, finishes or fails.
StatusChanged(r, st) ==
    /\ \/ status[r] = "kPendingResponse" /\ st \in {"kOk", "kError", "kNotConnected"}
       \/ status[r] = "kOk" /\ st \in {"kDoneByFin", "kNotConnected"}
    /\ status' = [status EXCEPT ![r] = st]
    /\ UNCHANGED <<cache, fetch, view, shared, stop, cancelled>>

FetchNext ==
    \/ \E r \in Request :
          \/ \E start \in Location, end \in Ends : FetchReceived(r, start, end)
          \/ \E relative \in BOOLEAN, start \in Group : JoiningFetchReceived(r, relative, start)
          \/ FetchCancelReceived(r)
          \/ Thread(r)
          \/ \E st \in {"kOk", "kError", "kDoneByFin", "kNotConnected"} : StatusChanged(r, st)
    \/ \E g \in Group : Expire(g) \/ \E o \in Object : ObjectCached(g, o)

\* The threads run; nothing is assumed of publishers and clients.
Fairness == \A r \in Request : WF_fetchVars(Thread(r))

FetchSpec == FetchInit /\ [][FetchNext]_fetchVars /\ Fairness

-----------------------------------------------------------------------------
(***************************************************************************)
(* Properties                                                              *)
(***************************************************************************)

\* A fetch from the cache sends objects of its range only, in order and each
\* once, and when it ends without having been stopped it has sent all that
\* were cached when it came in, whatever was cached or expired meanwhile.
FetchExact ==
    \A r \in Request : fetch[r].pc \in {"sending", "done"} /\ fetch[r].reason = "kOk" =>
        LET f == fetch[r]
        IN  /\ \A i \in 1..Len(f.sent) : InRange(f, f.sent[i])
            /\ \A i \in 1..(Len(f.sent) - 1) : Before(f.sent[i], f.sent[i + 1])
            /\ f.pc = "done" => f.owed \subseteq ToSet(f.sent)

\* Every fetch is answered, whether or not the publisher answers, and one from
\* the cache comes to its end.
FetchCompletes ==
    \A r \in Request :
        /\ fetch[r] # NoFetch ~> fetch[r] # NoFetch /\ fetch[r].response # "none"
        /\ At(r, "sending") ~> ~ At(r, "sending")

-----------------------------------------------------------------------------
(***************************************************************************)
(* What the repository's documents say and the code does not do            *)
(***************************************************************************)

\* src/src/client_manager.h:156: the flags "mark if a fetch thread should be
\* interrupted".  A thread whose fetch is cancelled sends no further object.
CancelInterrupts ==
    [][\A r \in cancelled : At(r, "sending") => fetch'[r].sent = fetch[r].sent]_fetchVars
=============================================================================
