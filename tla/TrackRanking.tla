---------------------------- MODULE TrackRanking ----------------------------
(***************************************************************************)
(* Top-N selection for the subscribers of one namespace prefix: the        *)
(* TrackRanking of the prefix, fed by the SubscribeTrackHandlers of the    *)
(* tracks, and one PublishNamespaceHandler per subscribed connection.      *)
(*                                                                         *)
(* The handlers' 64-bit insert_seq_num keeps its two ranges: below Half    *)
(* for a track whose value decreased, above it for any other.              *)
(***************************************************************************)
EXTENDS Integers, FiniteSets, Functions

CONSTANTS
    Track,            \* track aliases, numbers
    Publisher,        \* [Track -> connection]
    Subscriber,       \* connections that subscribe to the namespace
    Property,         \* property types that are tracked
    Value,            \* property values, numbers
    Filter,           \* connections whose subscription has a track filter
    MaxSelected,      \* max_tracks_selected of the filters
    InactiveAge,      \* inactive_age_ms_
    RefreshInterval,  \* kRefreshRankingIntervalMs
    AllowSelf,        \* config_.allow_self
    MaxTick,          \* bound: the clock
    MaxUpdate         \* bound: updates of one ranking

ASSUME RankingAssumption ==
    /\ Track \subseteq Nat /\ IsFiniteSet(Track) /\ Value \subseteq Nat /\ 0 \in Value
    /\ Filter \subseteq Subscriber
    /\ {MaxSelected, InactiveAge, RefreshInterval, MaxTick, MaxUpdate} \subseteq Nat

VARIABLES
    now,        \* the tick service
    published,  \* tracks with a publisher
    tracked,    \* tracked_properties_value_ of the track's handler
    feeds,      \* tracks whose track_ranking_ is alive
    rank,       \* the ranking: [ordered, flat, seq]
    handlers    \* connection -> published_tracks_ of its namespace handler

vars == <<now, published, tracked, feeds, rank, handlers>>

-----------------------------------------------------------------------------
Half == MaxUpdate + 1

\* ordered: <<property, track>> -> [value, seq, tick], the buckets' contents;
\* a track is in at most one bucket of a property.
NewRanking == [ordered |-> [k \in {} |-> 0], flat |-> <<>>, seq |-> 0]

Bucket(ordered, p, v) ==
    {t \in Track : <<p, t>> \in DOMAIN ordered /\ ordered[<<p, t>>].value = v}

\* The order of flat_track_list_ after a rebuild.
Precedes(ordered, p, a, b) ==
    LET x == ordered[<<p, a>>]
        y == ordered[<<p, b>>]
    IN  \/ x.value > y.value
        \/ x.value = y.value /\ (x.seq < y.seq \/ (x.seq = y.seq /\ a > b))

\* Entry i is the track with i - 1 tracks in front of it.
Rebuilt(ordered, p) ==
    LET ranked == {t \in Track : <<p, t>> \in DOMAIN ordered}
        At(i)  == CHOOSE t \in ranked :
                    Cardinality({u \in ranked : Precedes(ordered, p, u, t)}) = i - 1
    IN  [i \in 1..Cardinality(ranked) |->
            [alias |-> At(i), tick |-> ordered[<<p, At(i)>>].tick]]

\* Bug for the mutation runs: a dropped track stays in the list.
UpdateValueKeepsList(r, t, p, v) ==
    [r EXCEPT !.seq = @ + 1,
              !.ordered = [k \in {x \in DOMAIN @ :
                                    now - @[x].tick <= InactiveAge} \cup {<<p, t>>} |->
                              IF k = <<p, t>>
                              THEN [value |-> v, seq |-> Half + r.seq, tick |-> now]
                              ELSE @[k]],
              !.flat = IF r.flat = <<>> THEN <<[alias |-> t, tick |-> now]>> ELSE @]

\* TrackRanking::UpdateValue up to the notification.  An old bucket that
\* becomes empty is erased without asking for a rebuild.
UpdateValue(r, t, p, v) ==
    LET key      == <<p, t>>
        n        == r.seq + 1
        known    == key \in DOMAIN r.ordered
        old      == r.ordered[key]
        moved    == known /\ old.value # v
        left     == moved /\ Bucket(r.ordered, p, old.value) # {t}
        inserted == Bucket(r.ordered, p, v) = {}
        entry    == IF known /\ ~ moved THEN [old EXCEPT !.tick = now]
                    ELSE [value |-> v, tick |-> now,
                          seq |-> IF moved /\ old.value > v THEN Half - n
                                  ELSE Half + n]
        put      == [k \in DOMAIN r.ordered \cup {key} |->
                        IF k = key THEN entry ELSE r.ordered[k]]
        stale    == {k \in DOMAIN put : now - put[k].tick > InactiveAge}
        ordered  == Restrict(put, DOMAIN put \ stale)
    IN  [ordered |-> ordered,
         seq     |-> n,
         flat    |-> IF left \/ inserted \/ stale # {} THEN Rebuilt(ordered, p)
                     ELSE [i \in DOMAIN r.flat |->
                             IF r.flat[i].alias = t
                             THEN [r.flat[i] EXCEPT !.tick = now] ELSE r.flat[i]]]

\* The first MaxSelected tracks of the list that connection c may get.
Selected(flat, c, pub) ==
    LET mine == {i \in DOMAIN flat : /\ Publisher[flat[i].alias] # c
                                     /\ flat[i].alias \in DOMAIN pub}
        top  == {i \in mine : Cardinality({j \in mine : j <= i}) <= MaxSelected}
    IN  {flat[i].alias : i \in top}

\* Bug for the mutation runs: one track too many keeps its status.
PauseOneTooFew(flat, c, pub) ==
    LET top == Selected(flat, c, pub)
    IN  [t \in DOMAIN pub |->
            IF t \in top THEN "ok"
            ELSE IF Cardinality(DOMAIN pub) > MaxSelected + 1 THEN "paused"
            ELSE pub[t]]

\* Bug for the mutation runs: a selected track that was paused stays paused.
UpdateTrackRankingNoResume(flat, c, pub) ==
    LET top == Selected(flat, c, pub)
    IN  [t \in DOMAIN pub |->
            IF c \in Filter /\ t \notin top /\ Cardinality(DOMAIN pub) > MaxSelected
            THEN "paused" ELSE pub[t]]

\* PublishNamespaceHandler::UpdateTrackRanking; UnPublishTrack is disabled.
UpdateTrackRanking(flat, c, pub) ==
    LET top == Selected(flat, c, pub)
    IN  IF c \notin Filter THEN pub
        ELSE [t \in DOMAIN pub |->
                IF t \in top THEN "ok"
                ELSE IF Cardinality(DOMAIN pub) > MaxSelected THEN "paused"
                ELSE pub[t]]

-----------------------------------------------------------------------------
Untracked == [p \in Property |-> [value |-> 0, tick |-> 0]]

Init ==
    /\ now = 0
    /\ published = {}
    /\ tracked = [t \in Track |-> Untracked]
    /\ feeds = {}
    /\ rank = NewRanking
    /\ handlers = [c \in {} |-> 0]

Tick ==
    /\ now < MaxTick
    /\ now' = now + 1
    /\ UNCHANGED <<published, tracked, feeds, rank, handlers>>

\* May a namespace subscription of connection c get track t?
Mirrors(c, t) == AllowSelf \/ Publisher[t] # c

\* PublishReceived: matching namespace subscriptions publish the track on, and
\* the new handler feeds the ranking of the namespace, if there is one.
Publish(t) ==
    /\ t \notin published
    /\ published' = published \cup {t}
    /\ tracked' = [tracked EXCEPT ![t] = Untracked]
    /\ feeds' = IF DOMAIN handlers = {} THEN feeds ELSE feeds \cup {t}
    /\ handlers' = [c \in DOMAIN handlers |->
                       IF Mirrors(c, t) /\ t \notin DOMAIN handlers[c]
                       THEN [u \in DOMAIN handlers[c] \cup {t} |->
                                IF u = t THEN "ok" ELSE handlers[c][u]]
                       ELSE handlers[c]]
    /\ UNCHANGED <<now, rank>>

\* Bug for the mutation runs: the dropped handler still feeds the ranking.
UnpublishKeepsFeed(t) ==
    /\ t \in published
    /\ published' = published \ {t}
    /\ UNCHANGED <<now, tracked, feeds, rank, handlers>>

\* The track's handler is dropped; namespace handlers and ranking keep it.
Unpublish(t) ==
    /\ t \in published
    /\ published' = published \ {t}
    /\ feeds' = feeds \ {t}
    /\ UNCHANGED <<now, tracked, rank, handlers>>

\* SubscribeNamespaceReceived.
SubscribeNamespace(c) ==
    LET matched == {t \in published : Mirrors(c, t)}
    IN  /\ c \notin DOMAIN handlers
        /\ handlers' = [d \in DOMAIN handlers \cup {c} |->
                           IF d = c THEN [t \in matched |-> "ok"]
                           ELSE handlers[d]]
        /\ feeds' = feeds \cup matched
        /\ UNCHANGED <<now, published, tracked, rank>>

\* UnsubscribeNamespaceReceived; the ranking goes with its last subscriber.
UnsubscribeNamespace(c) ==
    /\ c \in DOMAIN handlers
    /\ handlers' = Restrict(handlers, DOMAIN handlers \ {c})
    /\ IF DOMAIN handlers = {c} THEN feeds' = {} /\ rank' = NewRanking
       ELSE UNCHANGED <<feeds, rank>>
    /\ UNCHANGED <<now, published, tracked>>

\* UpdateTrackedProperties for an object of track t with value v of property p:
\* an unchanged value is passed on only after the refresh interval.
ObjectReceived(t, p, v) ==
    LET last == tracked[t][p]
        r    == UpdateValue(rank, t, p, v)
    IN  /\ t \in published
        /\ rank.seq < MaxUpdate
        /\ last.value # v \/ now - last.tick > RefreshInterval
        /\ tracked' = [tracked EXCEPT ![t][p] = [value |-> v, tick |-> now]]
        /\ IF t \in feeds
           THEN /\ rank' = r
                /\ handlers' = [c \in DOMAIN handlers |->
                                   UpdateTrackRanking(r.flat, c, handlers[c])]
           ELSE UNCHANGED <<rank, handlers>>
        /\ UNCHANGED <<now, published, feeds>>

Next ==
    \/ Tick
    \/ \E t \in Track : Publish(t) \/ Unpublish(t)
    \/ \E c \in Subscriber : SubscribeNamespace(c) \/ UnsubscribeNamespace(c)
    \/ \E t \in Track, p \in Property, v \in Value : ObjectReceived(t, p, v)

Spec == Init /\ [][Next]_vars

-----------------------------------------------------------------------------
(***************************************************************************)
(* Properties                                                              *)
(***************************************************************************)
Aliases(flat) == {flat[i].alias : i \in DOMAIN flat}

\* Values and ticks stay in range, and only handlers that exist feed a ranking.
TypeOK ==
    /\ now \in 0..MaxTick /\ published \subseteq Track /\ feeds \subseteq published
    /\ DOMAIN rank.ordered \subseteq Property \X Track
    /\ \A k \in DOMAIN rank.ordered :
          rank.ordered[k] \in [value : Value, seq : 0..(2 * Half), tick : 0..MaxTick]
    /\ DOMAIN handlers \subseteq Subscriber
    /\ \A c \in DOMAIN handlers :
          /\ DOMAIN handlers[c] \subseteq Track
          /\ Range(handlers[c]) \subseteq {"ok", "paused"}

\* flat_track_list_ never lists a track twice, and lists only tracks that are
\* still ranked, with the tick of their last update: the list survives updates
\* in place, moves between buckets and the removal of inactive tracks.
FlatSound ==
    \A i \in DOMAIN rank.flat :
        /\ \A j \in DOMAIN rank.flat :
              rank.flat[i].alias = rank.flat[j].alias => i = j
        /\ \E k \in DOMAIN rank.ordered :
              /\ k[2] = rank.flat[i].alias
              /\ rank.ordered[k].tick = rank.flat[i].tick

\* Once an update has been ranked, a filtered subscriber gets no more tracks
\* than it asked for, however many were published since the last update.
TopNAfterUpdate ==
    [][rank'.seq > rank.seq =>
          \A c \in DOMAIN handlers' \cap Filter :
              Cardinality({t \in DOMAIN handlers'[c] : handlers'[c][t] = "ok"})
                  <= MaxSelected]_vars

\* The tracks at the top of the list are never paused for a subscriber, in
\* whichever order tracks were published, ranked and subscribed to; without a
\* filter no track is.
TopIsRunning ==
    \A c \in DOMAIN handlers :
        \A t \in (IF c \in Filter THEN Selected(rank.flat, c, handlers[c])
                  ELSE DOMAIN handlers[c]) : handlers[c][t] = "ok"

\* The comment in UpdateValue, "Rebuild if track moved buckets or new bucket
\* was created": the list is the ranking of the buckets.
ListIsCurrent ==
    \A p \in Property : [i \in DOMAIN rank.flat |-> rank.flat[i].alias] =
        [i \in DOMAIN Rebuilt(rank.ordered, p) |-> Rebuilt(rank.ordered, p)[i].alias]
=============================================================================
