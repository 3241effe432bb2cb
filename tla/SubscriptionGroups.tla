------------------------- MODULE SubscriptionGroups -------------------------
(***************************************************************************)
(* The registry of subscription groups (SubscriptionRegistry), with the    *)
(* part of the native backend it calls and the Bloomberg session behind    *)
(* it: which groups exist, the items of each and their native tokens, the  *)
(* map that routes an event from its token to an item, and the native      *)
(* feeds that Bloomberg keeps open.                                        *)
(*                                                                         *)
(* create, resubscribe, cancel, the sweeper and the restore after a        *)
(* reconnect are coroutines of one event loop.  Each is suspended only     *)
(* while a worker thread is inside session.subscribe or unsubscribe, so    *)
(* each is a few actions, one per stretch between two suspension points:   *)
(* ...Begins up to the native call, ...Returns after it.                   *)
(*                                                                         *)
(* One principal is modelled, the one the limit is about.  The buffers,    *)
(* cursors and long polls of a group are not in this module.               *)
(***************************************************************************)
EXTENDS Naturals, FiniteSets

CONSTANTS
  Groups,           (* one element per group a client asks for             *)
  NoGroup,
  Callers,          (* tool calls that can be in progress at a time        *)
  Restorers,        (* restores after a reconnect that can be in progress  *)
  Sweeper,          (* the one cleanup task                                *)
  Operations,       (* what clients and the clock do in this instance      *)
  ItemCounts,       (* how many topics a client may put into a group       *)
  MaxPerPrincipal,  (* subscriptions.maximum_per_principal                 *)
  PartialAccepts,   (* Bloomberg may take a part of a subscription list    *)
  Failing,          (* the operations whose session.unsubscribe may raise  *)
  MaxToken          (* bound of the model: tokens ever allocated           *)

ASSUME ConstantsAssumption ==
  /\ IsFiniteSet(Groups) /\ NoGroup \notin Groups
  /\ Callers \cap Restorers = {} /\ Sweeper \notin Callers \cup Restorers
  /\ Operations \subseteq {"RESUBSCRIBE", "CANCEL", "EXPIRE", "RECONNECT",
                        "INVALID", "ABANDON"}
  /\ ItemCounts \subseteq Nat \ {0}
  /\ MaxPerPrincipal \in Nat \ {0}
  /\ PartialAccepts \in BOOLEAN
  /\ Failing \subseteq {"ROLLBACK", "CANCEL", "EXPIRE", "RETRY",
                     "ABANDONED_UNSUBSCRIBE"}
  /\ MaxToken \in Nat

VARIABLES
  registered,  (* groups in _groups                                        *)
  status,      (* group.status; "UNMADE" before create                     *)
  generation,  (* group.generation                                         *)
  due,         (* groups whose expires_at has passed                       *)
  items,       (* group.items; an item is named by its first token         *)
  owner,       (* owner[i]: the group item i was made for                  *)
  native,      (* native[i]: item.native_token, the current one            *)
  itemStatus,  (* item.status                                              *)
  route,       (* _token_map: route[t] is the item of t, or NoItem         *)
  born,        (* history: the generation t was routed for                 *)
  pending,     (* _pending_unsubscribes                                    *)
  lastToken,   (* _token_counter                                           *)
  session,     (* "CONNECTED", "DOWN" (lost, object kept), "NONE",         *)
               (* "OPENING" (a new object, not connected yet)              *)
  cids,        (* tokens in _correlation_ids                               *)
  feed,        (* feed[t] at Bloomberg                                     *)
  heard,       (* heard[t]: the last status event delivered for t          *)
  frame        (* frame[w]: where coroutine w is suspended, with its locals *)

groupVars == <<registered, status, generation, due, items>>
itemVars == <<owner, native, itemStatus>>
routeVars == <<route, born>>
bloombergVars == <<feed, heard>>
vars == <<groupVars, itemVars, routeVars, pending, lastToken, session, cids,
          bloombergVars, frame>>

-----------------------------------------------------------------------------
NoItem == 0
Tokens == 1..MaxToken
Workers == Callers \cup Restorers \cup {Sweeper}

ActiveStatuses == {"STARTING", "ACTIVE", "DEGRADED"}
EndedStatuses == {"CANCELLED", "EXPIRED"}
GroupStatuses == {"UNMADE", "FAILED"} \cup ActiveStatuses \cup EndedStatuses
ItemStatuses ==
  {"NONE", "STARTING", "ACTIVE", "FAILED", "CANCELLED", "EXPIRED"}

\* LOST: ended by Bloomberg or with its session; REFUSED: its session was
\* lost before the feed opened.
FeedStates == {"NONE", "OPEN", "CLOSED", "LOST", "REFUSED"}
SubscribeOps == {"CREATE", "RESUBSCRIBE", "RESTORE"}
UnsubscribeOps == {"ROLLBACK", "CANCEL", "EXPIRE", "RETRY"}
\* What is left of a call whose caller was cancelled: the worker thread.
AbandonedOps == {"ABANDONED_SUBSCRIBE", "ABANDONED_UNSUBSCRIBE"}
Ops == {"IDLE", "RESTORE_DUE"} \cup SubscribeOps \cup UnsubscribeOps
         \cup AbandonedOps

\* tokens: the list the coroutine holds; asked: the tokens of the native call;
\* todo: the groups a restore has still to visit.
Frame(op, g, tokens, asked, todo, stage) ==
  [op |-> op, group |-> g, tokens |-> tokens, asked |-> asked, todo |-> todo,
   stage |-> stage]
Idle == Frame("IDLE", NoGroup, {}, {}, {}, "NONE")
Calling(op, g, tokens, asked, todo) ==
  Frame(op, g, tokens, asked, todo, "CALLING")

Returned(w, op) ==
  frame[w].op = op /\ frame[w].stage \in {"OK", "FAILED"}

Active(g) == status[g] \in ActiveStatuses
TokensOf(g) == {native[i] : i \in items[g]}

Init ==
  /\ registered = {}
  /\ status = [g \in Groups |-> "UNMADE"]
  /\ generation = [g \in Groups |-> 0]
  /\ due = {}
  /\ items = [g \in Groups |-> {}]
  /\ owner = [i \in Tokens |-> NoGroup]
  /\ native = [i \in Tokens |-> 0]
  /\ itemStatus = [i \in Tokens |-> "NONE"]
  /\ route = [t \in Tokens |-> NoItem]
  /\ born = [t \in Tokens |-> 0]
  /\ pending = {}
  /\ lastToken = 0
  /\ session = "CONNECTED"
  /\ cids = {}
  /\ feed = [t \in Tokens |-> "NONE"]
  /\ heard = [t \in Tokens |-> "NONE"]
  /\ frame = [w \in Workers |-> Idle]

-----------------------------------------------------------------------------
\* Mutant: the counter is read before it is incremented.
FreshBeforeIncrement(n) == lastToken..(lastToken + n - 1)
\* _allocate_token for each of n new items.
Fresh(n) == (lastToken + 1)..(lastToken + n)

\* The set of values f takes on Fresh, in the order of the items: how a restore
\* gives the items of I one fresh token each.
Renumberings(I) ==
  {f \in [I -> Fresh(Cardinality(I))] : \A i, j \in I : i < j => f[i] < f[j]}

Unrouted(T) == [t \in Tokens |-> IF t \in T THEN NoItem ELSE route[t]]

\* Items that are their own (first) token: those create and resubscribe make.
NewItems(g, T) ==
  /\ items' = [items EXCEPT ![g] = T]
  /\ owner' = [i \in Tokens |-> IF i \in T THEN g ELSE owner[i]]
  /\ native' = [i \in Tokens |-> IF i \in T THEN i ELSE native[i]]
  /\ itemStatus' =
       [i \in Tokens |-> IF i \in T THEN "STARTING" ELSE itemStatus[i]]

\* Mutant: the routes of the replaced items are kept.
RouteNewKeepingOld(T, old, gen) ==
  /\ route' = [t \in Tokens |-> IF t \in T THEN t ELSE route[t]]
  /\ born' = [t \in Tokens |-> IF t \in T THEN gen ELSE born[t]]
RouteNew(T, old, gen) ==
  /\ route' = [t \in Tokens |-> IF t \in T THEN t ELSE Unrouted(old)[t]]
  /\ born' = [t \in Tokens |-> IF t \in T THEN gen ELSE born[t]]

\* backend.unsubscribe takes the correlation ids out before it calls Bloomberg;
\* without a session, or when it holds none of them, it returns at once.
Asks(T) == IF session = "NONE" THEN {} ELSE T \cap cids

-----------------------------------------------------------------------------
(* create *)

\* Mutant: the bound is compared with "more than".
MayCreateOneMore ==
  Cardinality({g \in registered : Active(g)}) <= MaxPerPrincipal
MayCreate ==
  Cardinality({g \in registered : Active(g)}) < MaxPerPrincipal

\* The check of the limit, the items, their routes and the group, up to the
\* native call; without a connection everything but the tokens is undone.
CreateBegins(w, g, n) ==
  /\ frame[w] = Idle
  /\ status[g] = "UNMADE"
  /\ MayCreate
  /\ lastToken + n <= MaxToken
  /\ lastToken' = lastToken + n
  /\ \/ /\ session = "CONNECTED"
        /\ registered' = registered \cup {g}
        /\ status' = [status EXCEPT ![g] = "STARTING"]
        /\ generation' = [generation EXCEPT ![g] = 1]
        /\ NewItems(g, Fresh(n))
        /\ RouteNew(Fresh(n), {}, 1)
        /\ cids' = cids \cup Fresh(n)
        /\ frame' = [frame EXCEPT
             ![w] = Calling("CREATE", g, Fresh(n), Fresh(n), {})]
     \/ /\ session # "CONNECTED"
        /\ UNCHANGED <<registered, status, generation, items, itemVars,
                       routeVars, cids, frame>>
  /\ UNCHANGED <<due, pending, session, bloombergVars>>

\* A topic is refused after n others got tokens and routes: these stay, for a
\* group that is never registered.
CreateInvalid(w, n) ==
  /\ "INVALID" \in Operations
  /\ frame[w] = Idle
  /\ MayCreate
  /\ lastToken + n <= MaxToken
  /\ lastToken' = lastToken + n
  /\ route' = [t \in Tokens |-> IF t \in Fresh(n) THEN t ELSE route[t]]
  /\ UNCHANGED <<groupVars, itemVars, born, pending, session, cids,
                 bloombergVars, frame>>

\* Mutant: STARTING is set once the feeds are taken.
CreateReturnsStarting(w) ==
  /\ Returned(w, "CREATE")
  /\ IF frame[w].stage = "OK"
     THEN /\ status' = [status EXCEPT ![frame[w].group] = "STARTING"]
          /\ UNCHANGED <<registered, route>>
     ELSE /\ registered' = registered \ {frame[w].group}
          /\ route' = Unrouted(frame[w].tokens)
          /\ UNCHANGED status
  /\ frame' = [frame EXCEPT ![w] = Idle]
  /\ UNCHANGED <<generation, due, items, itemVars, born, pending, lastToken,
                 session, cids, bloombergVars>>

CreateReturns(w) ==
  /\ Returned(w, "CREATE")
  /\ IF frame[w].stage = "OK"
     THEN UNCHANGED <<registered, route>>
     ELSE /\ registered' = registered \ {frame[w].group}
          /\ route' = Unrouted(frame[w].tokens)
  /\ frame' = [frame EXCEPT ![w] = Idle]
  /\ UNCHANGED <<status, generation, due, items, itemVars, born, pending,
                 lastToken, session, cids, bloombergVars>>

-----------------------------------------------------------------------------
(* resubscribe *)

\* Validation and the prospective items, up to the native call.  When a topic is
\* refused the call ends, as it does without a connection: the rollback then
\* finds nothing to unsubscribe.  Only the tokens are used up.
ResubscribeBegins(w, g, n) ==
  /\ "RESUBSCRIBE" \in Operations
  /\ frame[w] = Idle
  /\ g \in registered
  /\ status[g] \notin EndedStatuses
  /\ lastToken + n <= MaxToken
  /\ lastToken' = lastToken + n
  /\ \/ /\ session = "CONNECTED"
        /\ cids' = cids \cup Fresh(n)
        /\ frame' = [frame EXCEPT
             ![w] = Calling("RESUBSCRIBE", g, Fresh(n), Fresh(n), {})]
     \/ /\ session # "CONNECTED" \/ "INVALID" \in Operations
        /\ UNCHANGED <<cids, frame>>
  /\ UNCHANGED <<groupVars, itemVars, routeVars, pending, session,
                 bloombergVars>>

\* Phase 3: the swap, whatever became of the group meanwhile.
ResubscribeCommits(w) ==
  LET g == frame[w].group
      old == TokensOf(g)
  IN
  /\ Returned(w, "RESUBSCRIBE") /\ frame[w].stage = "OK"
  /\ generation' = [generation EXCEPT ![g] = @ + 1]
  /\ status' = [status EXCEPT ![g] = "STARTING"]
  /\ NewItems(g, frame[w].tokens)
  /\ RouteNew(frame[w].tokens, old, generation[g] + 1)
  /\ pending' = pending \cup old
  /\ frame' = [frame EXCEPT ![w] = Idle]
  /\ UNCHANGED <<registered, due, lastToken, session, cids, bloombergVars>>

\* The rollback of a failed subscription unsubscribes what was taken of it.
ResubscribeFails(w) ==
  LET asked == Asks(frame[w].tokens)
  IN
  /\ Returned(w, "RESUBSCRIBE") /\ frame[w].stage = "FAILED"
  /\ cids' = cids \ asked
  /\ IF asked # {}
     THEN /\ frame' = [frame EXCEPT ![w] =
               Calling("ROLLBACK", frame[w].group, frame[w].tokens, asked, {})]
          /\ UNCHANGED route
     ELSE /\ frame' = [frame EXCEPT ![w] = Idle]
          /\ route' = Unrouted(frame[w].tokens)
  /\ UNCHANGED <<groupVars, itemVars, born, pending, lastToken, session,
                 bloombergVars>>

RollbackReturns(w) ==
  /\ Returned(w, "ROLLBACK")
  /\ route' = Unrouted(frame[w].tokens)
  /\ frame' = [frame EXCEPT ![w] = Idle]
  /\ UNCHANGED <<groupVars, itemVars, born, pending, lastToken, session, cids,
                 bloombergVars>>

-----------------------------------------------------------------------------
(* cancel, and the sweeper: expire_due, retry_pending_unsubscribes *)

\* Mutant: the routes are kept.
EndsKeepingRoutes(g, tokens, final) ==
  /\ route' = route
  /\ itemStatus' = [i \in Tokens |-> IF i \in items[g] THEN final
                                                       ELSE itemStatus[i]]
  /\ status' = [status EXCEPT ![g] = final]

\* The stretch after unsubscribe: the tokens read before it lose their routes,
\* the items of now, and the group, take the final status.
Ends(g, tokens, final) ==
  /\ route' = Unrouted(tokens)
  /\ itemStatus' = [i \in Tokens |-> IF i \in items[g] THEN final
                                                       ELSE itemStatus[i]]
  /\ status' = [status EXCEPT ![g] = final]

\* From the tokens of the group to the native call, or, when that call is not
\* made, to the end.
Unsubscribes(w, op, g, final) ==
  LET tokens == TokensOf(g)
      asked == Asks(tokens)
  IN
  /\ frame[w] = Idle
  /\ cids' = cids \ asked
  /\ IF asked # {}
     THEN /\ frame' = [frame EXCEPT ![w] = Calling(op, g, tokens, asked, {})]
          /\ UNCHANGED <<route, itemStatus, status>>
     ELSE /\ Ends(g, tokens, final)
          /\ UNCHANGED frame
  /\ UNCHANGED <<registered, generation, due, items, owner, native, born,
                 pending, lastToken, session, bloombergVars>>

\* Mutant: the tokens are read again after the native call.
FailedTokensNow(w) == TokensOf(frame[w].group)
\* What is noted for the sweeper when the teardown failed: the tokens that were
\* read before it, although the group may have others by now.
FailedTokens(w) == frame[w].tokens

Unsubscribed(w, op, final) ==
  /\ Returned(w, op)
  /\ pending' = IF frame[w].stage = "FAILED"
                THEN pending \cup FailedTokens(w) ELSE pending
  /\ Ends(frame[w].group, frame[w].tokens, final)
  /\ frame' = [frame EXCEPT ![w] = Idle]
  /\ UNCHANGED <<registered, generation, due, items, owner, native, born,
                 lastToken, session, cids, bloombergVars>>

CancelBegins(w, g) ==
  /\ "CANCEL" \in Operations
  /\ g \in registered
  /\ status[g] # "CANCELLED"
  /\ Unsubscribes(w, "CANCEL", g, "CANCELLED")

CancelReturns(w) == Unsubscribed(w, "CANCEL", "CANCELLED")

\* Mutant: a degraded group is not looked at.
ExpireBeginsUnlessDegraded(g) ==
  /\ g \in registered \cap due
  /\ status[g] \in {"STARTING", "ACTIVE"}
  /\ Unsubscribes(Sweeper, "EXPIRE", g, "EXPIRED")

\* The sweeper visits the groups in some order, one at a time.
ExpireBegins(g) ==
  /\ g \in registered \cap due
  /\ Active(g)
  /\ Unsubscribes(Sweeper, "EXPIRE", g, "EXPIRED")

ExpireReturns == Unsubscribed(Sweeper, "EXPIRE", "EXPIRED")

RetryBegins(t) ==
  LET asked == Asks({t})
  IN
  /\ frame[Sweeper] = Idle
  /\ t \in pending
  /\ cids' = cids \ asked
  /\ IF asked # {}
     THEN /\ frame' = [frame EXCEPT
               ![Sweeper] = Calling("RETRY", NoGroup, {t}, asked, {})]
          /\ UNCHANGED pending
     ELSE /\ pending' = pending \ {t}
          /\ UNCHANGED frame
  /\ UNCHANGED <<groupVars, itemVars, routeVars, lastToken, session,
                 bloombergVars>>

RetryReturns ==
  /\ Returned(Sweeper, "RETRY")
  /\ pending' = IF frame[Sweeper].stage = "OK"
                THEN pending \ frame[Sweeper].tokens ELSE pending
  /\ frame' = [frame EXCEPT ![Sweeper] = Idle]
  /\ UNCHANGED <<groupVars, itemVars, routeVars, lastToken, session, cids,
                 bloombergVars>>

-----------------------------------------------------------------------------
(* restore_after_reconnect *)

\* Mutant: the old routes stay, only the new ones are added.
RetiredNone(I) == {}
\* The tokens whose routes go when the items of I get new ones.
Retired(I) == {native[i] : i \in I}

\* Mutant: the items keep the status they had in the old session.
RestartedNot(I) == itemStatus
Restarted(I) ==
  [i \in Tokens |-> IF i \in I THEN "STARTING" ELSE itemStatus[i]]

\* Every item of I gets the token fresh[i] instead of its old one; the new
\* tokens are routed if the feeds are going to be asked for.
SwapTokens(I, fresh, rt, routed) ==
  LET new == {fresh[i] : i \in I}
  IN
  /\ native' = [i \in Tokens |-> IF i \in I THEN fresh[i] ELSE native[i]]
  /\ itemStatus' = Restarted(I)
  /\ route' = [t \in Tokens |->
       IF routed /\ t \in new THEN CHOOSE i \in I : fresh[i] = t
       ELSE IF t \in Retired(I) THEN NoItem ELSE rt[t]]
  /\ born' = [t \in Tokens |->
       IF routed /\ t \in new
       THEN generation[owner[CHOOSE i \in I : fresh[i] = t]] + 1
       ELSE born[t]]
  /\ lastToken' = lastToken + Cardinality(I)

\* From one native call to the next: st and rt are group statuses and routes
\* as the stretch begins.  With a connection the next active group waits for
\* its feeds; without one every remaining group fails in the same stretch.
RestoreGoesOn(w, st, rt, todo) ==
  LET live == {g \in todo : st[g] \in ActiveStatuses}
  IN
  /\ \/ /\ live = {}
        /\ status' = st
        /\ route' = rt
        /\ frame' = [frame EXCEPT ![w] = Idle]
        /\ UNCHANGED <<generation, native, itemStatus, born, lastToken, cids>>
     \/ \E g \in live : \E fresh \in Renumberings(items[g]) :
          LET new == {fresh[i] : i \in items[g]} IN
          /\ session = "CONNECTED"
          /\ lastToken + Cardinality(items[g]) <= MaxToken
          /\ status' = [st EXCEPT ![g] = "STARTING"]
          /\ generation' = [generation EXCEPT ![g] = @ + 1]
          /\ SwapTokens(items[g], fresh, rt, TRUE)
          /\ cids' = cids \cup new
          /\ frame' = [frame EXCEPT
               ![w] = Calling("RESTORE", g, new, new, todo \ {g})]
     \/ LET I == UNION {items[g] : g \in live} IN
          \E fresh \in Renumberings(I) :
          /\ session # "CONNECTED" /\ live # {}
          /\ lastToken + Cardinality(I) <= MaxToken
          /\ status' = [g \in Groups |-> IF g \in live THEN "FAILED" ELSE st[g]]
          /\ generation' = [g \in Groups |-> IF g \in live
                                             THEN generation[g] + 1
                                             ELSE generation[g]]
          /\ SwapTokens(I, fresh, rt, FALSE)
          /\ frame' = [frame EXCEPT ![w] = Idle]
          /\ UNCHANGED cids
  /\ UNCHANGED <<registered, due, items, owner, pending, session,
                 bloombergVars>>

\* The listener runs once the schemas are refreshed; it restores only if the
\* session is connected (still or again).
RestoreBegins(w) ==
  /\ frame[w].op = "RESTORE_DUE"
  /\ IF session = "CONNECTED"
     THEN RestoreGoesOn(w, status, route, registered)
     ELSE /\ frame' = [frame EXCEPT ![w] = Idle]
          /\ UNCHANGED <<groupVars, itemVars, routeVars, pending, lastToken,
                         session, cids, bloombergVars>>

RestoreReturns(w) ==
  /\ Returned(w, "RESTORE")
  /\ IF frame[w].stage = "OK"
     THEN RestoreGoesOn(w, status, route, frame[w].todo)
     ELSE RestoreGoesOn(w, [status EXCEPT ![frame[w].group] = "FAILED"],
                        Unrouted(frame[w].tokens), frame[w].todo)

-----------------------------------------------------------------------------
(* the session and Bloomberg *)

LoseSession ==
  /\ "RECONNECT" \in Operations
  /\ session = "CONNECTED"
  /\ session' = "DOWN"
  /\ feed' = [t \in Tokens |->
       IF feed[t] = "OPEN" THEN "LOST"
       ELSE IF feed[t] = "NONE" /\ t <= lastToken THEN "REFUSED"
       ELSE feed[t]]
  /\ UNCHANGED <<groupVars, itemVars, routeVars, pending, lastToken, cids,
                 heard, frame>>

TearDown ==
  /\ session = "DOWN"
  /\ session' = "NONE"
  /\ UNCHANGED <<groupVars, itemVars, routeVars, pending, lastToken, cids,
                 bloombergVars, frame>>

\* A new native session is there before the manager is connected.
StartNative ==
  /\ session = "NONE"
  /\ session' = "OPENING"
  /\ UNCHANGED <<groupVars, itemVars, routeVars, pending, lastToken, cids,
                 bloombergVars, frame>>

\* The number of reconnects is bounded by the restores in progress.
Reconnect(w) ==
  /\ session = "OPENING"
  /\ frame[w] = Idle
  /\ session' = "CONNECTED"
  /\ frame' = [frame EXCEPT ![w].op = "RESTORE_DUE"]
  /\ UNCHANGED <<groupVars, itemVars, routeVars, pending, lastToken, cids,
                 bloombergVars>>

\* A tool call is cancelled while it waits for its worker thread, or before it
\* went on: CancelledError passes every "except Exception", so neither the
\* rollback nor the rest of the call runs, and the thread goes on alone.
Abandon(w) ==
  /\ "ABANDON" \in Operations
  /\ frame[w].op \in SubscribeOps \cup UnsubscribeOps
  /\ frame' = [frame EXCEPT ![w] =
       IF frame[w].stage # "CALLING" THEN Idle
       ELSE Calling(IF frame[w].op \in SubscribeOps
                    THEN "ABANDONED_SUBSCRIBE" ELSE "ABANDONED_UNSUBSCRIBE",
                    frame[w].group, frame[w].tokens, frame[w].asked, {})]
  /\ UNCHANGED <<groupVars, itemVars, routeVars, pending, lastToken, session,
                 cids, bloombergVars>>

\* The coroutine of w will go on with the outcome, if there still is one.
Delivers(w, outcome) ==
  frame' = [frame EXCEPT ![w] = IF frame[w].op \in AbandonedOps THEN Idle
                                ELSE [frame[w] EXCEPT !.stage = outcome]]

\* A worker thread comes back from session.subscribe: the feeds taken are open,
\* and an error for any of the list fails the whole call.
SubscribeCallReturns(w) ==
  LET asked == frame[w].asked
      ready == {t \in asked : feed[t] = "NONE"}
  IN
  /\ frame[w].op \in SubscribeOps \cup {"ABANDONED_SUBSCRIBE"}
  /\ frame[w].stage = "CALLING"
  /\ \E taken \in SUBSET ready, outcome \in {"OK", "FAILED"} :
       /\ outcome = "OK" => taken = ready
       /\ outcome = "FAILED" => taken # asked
       /\ PartialAccepts \/ taken \in {{}, ready}
       /\ feed' = [t \in Tokens |-> IF t \in taken THEN "OPEN" ELSE feed[t]]
       /\ Delivers(w, outcome)
  /\ UNCHANGED <<groupVars, itemVars, routeVars, pending, lastToken, session,
                 cids, heard>>

UnsubscribeCallReturns(w) ==
  /\ frame[w].op \in UnsubscribeOps \cup {"ABANDONED_UNSUBSCRIBE"}
  /\ frame[w].stage = "CALLING"
  /\ \/ /\ Delivers(w, "OK")
        /\ feed' = [t \in Tokens |->
             IF t \in frame[w].asked /\ feed[t] = "OPEN" THEN "CLOSED"
                                                         ELSE feed[t]]
     \/ /\ frame[w].op \in Failing
        /\ Delivers(w, "FAILED")
        /\ UNCHANGED feed
  /\ UNCHANGED <<groupVars, itemVars, routeVars, pending, lastToken, session,
                 cids, heard>>

-----------------------------------------------------------------------------
(* status events: handle_event and _recompute_group_status *)

\* The status of a group whose items have the statuses S.
Recomputed(S, old) ==
  CASE S = {"ACTIVE"} -> "ACTIVE"
    [] "ACTIVE" \in S /\ S # {"ACTIVE"} -> "DEGRADED"
    [] S = {"STARTING"} -> "STARTING"
    [] S = {"FAILED"} -> "FAILED"
    [] OTHER -> old

HandleStatus(t, new) ==
  LET i == route[t]
      g == owner[i]
      next == [itemStatus EXCEPT ![i] = new]
  IN
  IF i # NoItem /\ g \in registered /\ i \in items[g]
  THEN /\ itemStatus' = next
       /\ status' = [status EXCEPT
            ![g] = Recomputed({next[j] : j \in items[g]}, @)]
  ELSE UNCHANGED <<itemStatus, status>>

\* Bloomberg tells of each feed at most once that it started, then at most
\* once that it ended; an event may be handled after the feed was closed.
EventStarted(t) ==
  /\ heard[t] = "NONE"
  /\ feed[t] \in {"OPEN", "CLOSED", "LOST"}
  /\ heard' = [heard EXCEPT ![t] = "STARTED"]
  /\ HandleStatus(t, "ACTIVE")
  /\ UNCHANGED <<registered, generation, due, items, owner, native, routeVars,
                 pending, lastToken, session, cids, feed, frame>>

EventFailed(t) ==
  /\ heard[t] # "ENDED"
  /\ feed[t] \in {"OPEN", "LOST"}
  /\ heard' = [heard EXCEPT ![t] = "ENDED"]
  /\ feed' = [feed EXCEPT ![t] = "LOST"]
  /\ HandleStatus(t, "FAILED")
  /\ UNCHANGED <<registered, generation, due, items, owner, native, routeVars,
                 pending, lastToken, session, cids, frame>>

EventUnsubscribed(t) ==
  /\ heard[t] # "ENDED"
  /\ feed[t] = "CLOSED"
  /\ heard' = [heard EXCEPT ![t] = "ENDED"]
  /\ HandleStatus(t, "CANCELLED")
  /\ UNCHANGED <<registered, generation, due, items, owner, native, routeVars,
                 pending, lastToken, session, cids, feed, frame>>

TimeToLivePasses(g) ==
  /\ "EXPIRE" \in Operations
  /\ g \in registered \ due
  /\ due' = due \cup {g}
  /\ UNCHANGED <<registered, status, generation, items, itemVars, routeVars,
                 pending, lastToken, session, cids, bloombergVars, frame>>

-----------------------------------------------------------------------------
Client(w) ==
  \/ \E g \in Groups, n \in ItemCounts :
       CreateBegins(w, g, n) \/ ResubscribeBegins(w, g, n)
  \/ \E g \in Groups : CancelBegins(w, g)
  \/ \E n \in ItemCounts : CreateInvalid(w, n)
  \/ Abandon(w)

\* A coroutine goes on after its native call.
Resume(w) ==
  \/ CreateReturns(w)
  \/ ResubscribeCommits(w) \/ ResubscribeFails(w) \/ RollbackReturns(w)
  \/ CancelReturns(w)

Sweep ==
  \/ \E g \in Groups : ExpireBegins(g)
  \/ \E t \in Tokens : RetryBegins(t)
  \/ ExpireReturns \/ RetryReturns

Restore(w) == RestoreBegins(w) \/ RestoreReturns(w)

CallReturns(w) == SubscribeCallReturns(w) \/ UnsubscribeCallReturns(w)

Event(t) == EventStarted(t) \/ EventFailed(t) \/ EventUnsubscribed(t)

Next ==
  \/ \E w \in Callers : Client(w) \/ Resume(w)
  \/ Sweep
  \/ \E w \in Restorers : Reconnect(w) \/ Restore(w)
  \/ \E w \in Workers : CallReturns(w)
  \/ \E t \in Tokens : Event(t)
  \/ \E g \in Groups : TimeToLivePasses(g)
  \/ LoseSession \/ TearDown \/ StartNative

Spec == Init /\ [][Next]_vars

\* Worker threads come back, asyncio runs what is ready, and each sweep visits
\* every group: a due group is not passed over for ever.
Fairness ==
  /\ \A w \in Workers : WF_vars(CallReturns(w))
  /\ \A w \in Callers : WF_vars(Resume(w))
  /\ WF_vars(ExpireReturns \/ RetryReturns)
  /\ \A g \in Groups : SF_vars(ExpireBegins(g))

FairSpec == Spec /\ Fairness

-----------------------------------------------------------------------------
(* Properties *)

FrameType ==
  [op : Ops, group : Groups \cup {NoGroup}, tokens : SUBSET Tokens,
   asked : SUBSET Tokens, todo : SUBSET Groups,
   stage : {"NONE", "CALLING", "OK", "FAILED"}]

\* Every variable has its type; tokens are 1, 2, ... and never 0, the token
\* the dispatcher gives to session events.
TypeOK ==
  /\ registered \subseteq Groups
  /\ status \in [Groups -> GroupStatuses]
  /\ generation \in [Groups -> Nat]
  /\ due \subseteq Groups
  /\ items \in [Groups -> SUBSET Tokens]
  /\ owner \in [Tokens -> Groups \cup {NoGroup}]
  /\ native \in [Tokens -> Tokens \cup {0}]
  /\ itemStatus \in [Tokens -> ItemStatuses]
  /\ route \in [Tokens -> Tokens \cup {NoItem}]
  /\ born \in [Tokens -> Nat]
  /\ pending \subseteq Tokens
  /\ lastToken \in 0..MaxToken
  /\ session \in {"CONNECTED", "DOWN", "NONE", "OPENING"}
  /\ cids \subseteq Tokens
  /\ feed \in [Tokens -> FeedStates]
  /\ heard \in [Tokens -> {"NONE", "STARTED", "ENDED"}]
  /\ frame \in [Workers -> FrameType]

\* handle_event finds a group for the token t.
Located(t) == route[t] # NoItem /\ owner[route[t]] # NoGroup

\* However resubscriptions, restores and cancellations overlap, an event is
\* routed only to an item its group has now, and only by the token this item
\* has now: no two live tokens feed one item, none feeds a replaced item.
RoutedTokensAreCurrent ==
  \A t \in Tokens : Located(t) =>
    /\ route[t] \in items[owner[route[t]]]
    /\ native[route[t]] = t

\* Events of an older generation are not taken for events of the group as it
\* is now: what is routed was routed for the generation the group has.
EventsOfCurrentGeneration ==
  \A t \in Tokens :
    Located(t) => born[t] = generation[owner[route[t]]]

\* A token the sweeper may still unsubscribe is not one that feeds an item: a
\* retry never cuts off a group that was replaced or restored meanwhile.
PendingAreRetired == \A t \in pending : route[t] = NoItem

\* A group is called ACTIVE only if Bloomberg confirmed the present feed of
\* each of its items (and has not ended it, except at the gateway's request):
\* no confirmation is carried over from an older feed or another item.
ActiveMeansConfirmed ==
  \A g \in registered : status[g] = "ACTIVE" =>
    \A i \in items[g] :
      heard[native[i]] = "STARTED" \/ feed[native[i]] = "CLOSED"

\* The limit holds however creations, failures, events and endings interleave.
LimitHolds ==
  Cardinality({g \in registered : Active(g)}) <= MaxPerPrincipal

\* Nothing, no late event and no returning call, gives a cancelled or expired
\* group another life.
EndedStaysEnded ==
  [][\A g \in Groups :
       status[g] \in EndedStatuses => status'[g] \in EndedStatuses]_vars

\* No token leads to an item of a group that has ended.
EndedIsQuiet ==
  \A t \in Tokens :
    Located(t) => status[owner[route[t]]] \notin EndedStatuses

\* A live group whose time to live has passed does not stay live, whatever
\* else the sweeper has to do and whether or not Bloomberg cooperates.
DueGroupsEnd ==
  \A g \in Groups :
    (g \in registered \cap due /\ Active(g)) ~>
      ~(g \in registered /\ Active(g))

-----------------------------------------------------------------------------
(* What the documents say and the code does not do *)

\* SPEC.md:1245, "Cancellation is idempotent": once a group was reported
\* cancelled, cancelling it again would change nothing.
CancelIsFinal ==
  [][\A g \in Groups :
       status[g] = "CANCELLED" => status'[g] \in EndedStatuses]_vars

\* subscriptions.py:469, "keep it observable and retryable": a token leaves the
\* set of failed unsubscriptions only when its feed is not open any more.
RetriedUntilClosed ==
  [][\A t \in pending \ pending' : feed'[t] # "OPEN"]_vars

\* subscriptions.py:221: a group still STARTING "means the native session never
\* confirmed the subscription".
StartingMeansUnconfirmed ==
  \A g \in registered :
    (status[g] = "STARTING" /\ items[g] # {}) =>
      \E i \in items[g] : heard[native[i]] # "STARTED"
=============================================================================
