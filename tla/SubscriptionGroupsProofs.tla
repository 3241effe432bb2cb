---------------------- MODULE SubscriptionGroupsProofs ----------------------
(***************************************************************************)
(* Proofs about SubscriptionGroups, for every set of groups, callers and   *)
(* restores, every operation and every number of items and tokens.         *)
(*                                                                         *)
(* First the records: types, routing and, where no group is replaced or    *)
(* restored, the limit and the end of a group.                             *)
(*                                                                         *)
(* Then the feeds, with restores and abandoned calls included: an active   *)
(* group is routed as a whole, its feeds are closed together, and ACTIVE   *)
(* means that Bloomberg confirmed them.  The invariant has three layers,   *)
(* each proved to be kept with the help of the ones before it: TokensInv   *)
(* (routes, correlation ids and the tokens coroutines hold), FeedInv (the  *)
(* feeds behind the tokens of a group) and ItemsConfirmed with ActiveShape *)
(* (the statuses).                                                         *)
(***************************************************************************)
EXTENDS SubscriptionGroups, FiniteSetTheorems, TLAPS

-----------------------------------------------------------------------------
(* Tokens and renumberings.                                                *)

\* Finitely many tokens: the size of a set of items is a number.
LEMMA ItemSetsFinite ==
  ASSUME NEW I \in SUBSET Tokens
  PROVE  IsFiniteSet(I) /\ Cardinality(I) \in Nat
  <1>1. IsFiniteSet(Tokens)
    BY ConstantsAssumption, FS_Interval DEF Tokens
  <1> QED
    BY <1>1, FS_Subset, FS_CardinalityType

\* A renumbering gives each item a token of its own that no one had before.
LEMMA RenumberingsFresh ==
  ASSUME NEW I \in SUBSET Tokens, NEW fresh \in Renumberings(I),
         lastToken \in Nat
  PROVE  /\ \A i \in I : fresh[i] \in Nat
                         /\ lastToken < fresh[i]
                         /\ fresh[i] <= lastToken + Cardinality(I)
         /\ \A i, j \in I : fresh[i] = fresh[j] => i = j
  <1>1. Cardinality(I) \in Nat
    BY ItemSetsFinite
  <1>2. fresh \in [I -> (lastToken + 1)..(lastToken + Cardinality(I))]
    BY DEF Renumberings, Fresh
  <1>3. \A i \in I : fresh[i] \in Nat /\ lastToken < fresh[i]
                     /\ fresh[i] <= lastToken + Cardinality(I)
    BY <1>1, <1>2
  <1>4. ASSUME NEW i \in I, NEW j \in I, fresh[i] = fresh[j] PROVE i = j
    <2>1. i \in Nat /\ j \in Nat
      BY DEF Tokens
    <2>2. ~(i < j) /\ ~(j < i)
      BY <1>3, <1>4 DEF Renumberings
    <2> QED
      BY <2>1, <2>2
  <1> QED
    BY <1>3, <1>4

-----------------------------------------------------------------------------
(* Type correctness, with who owns which item.                             *)

\* Every item of a group was made for that group and has a token.
Owned ==
  \A g \in Groups : \A i \in items[g] : owner[i] = g /\ native[i] \in Tokens

\* The tokens a resubscription holds while it waits for Bloomberg are still
\* nobody's: no item, no route, no failed teardown and no other coroutine knows
\* them.
Prospective ==
  \A w \in Workers : frame[w].op = "RESUBSCRIBE" =>
    /\ frame[w].group \in Groups
    /\ \A t \in frame[w].tokens :
         /\ t \notin pending
         /\ \A s \in Tokens : route[s] # t
         /\ \A g \in Groups : \A i \in items[g] : i # t /\ native[i] # t
         /\ \A v \in Workers \ {w} : t \notin frame[v].tokens

LEMMA InitType == Init => TypeOK
  BY ConstantsAssumption
  DEF Init, TypeOK, GroupStatuses, ItemStatuses, FeedStates, FrameType, Idle,
      Frame, Ops, NoItem

\* What a coroutine keeps across its native call is well typed.
LEMMA FrameTyped ==
  ASSUME NEW op \in Ops, NEW g \in Groups \cup {NoGroup},
         NEW T \in SUBSET Tokens, NEW A \in SUBSET Tokens,
         NEW todo \in SUBSET Groups,
         NEW stage \in {"NONE", "CALLING", "OK", "FAILED"}
  PROVE  Frame(op, g, T, A, todo, stage) \in FrameType
  BY DEF Frame, FrameType

LEMMA IdleTyped == Idle \in FrameType
  BY DEF Idle, Frame, FrameType, Ops

LEMMA FreshTyped ==
  ASSUME TypeOK, NEW n \in ItemCounts, lastToken + n <= MaxToken
  PROVE  /\ Fresh(n) \in SUBSET Tokens
         /\ lastToken + n \in 0..MaxToken
         /\ \A t \in Fresh(n) : t \in Nat /\ lastToken < t
  BY ConstantsAssumption DEF TypeOK, Fresh, Tokens

LEMMA SwapTyped ==
  ASSUME TypeOK,
         NEW I \in SUBSET Tokens, \A i \in I : owner[i] \in Groups,
         NEW fresh \in Renumberings(I),
         NEW rt \in [Tokens -> Tokens \cup {NoItem}], NEW routed \in BOOLEAN,
         lastToken + Cardinality(I) <= MaxToken,
         SwapTokens(I, fresh, rt, routed)
  PROVE  /\ native' \in [Tokens -> Tokens \cup {0}]
         /\ itemStatus' \in [Tokens -> ItemStatuses]
         /\ route' \in [Tokens -> Tokens \cup {NoItem}]
         /\ born' \in [Tokens -> Nat]
         /\ lastToken' \in 0..MaxToken
         /\ {fresh[i] : i \in I} \in SUBSET Tokens
         /\ \A i \in Tokens : native[i] \in Tokens => native'[i] \in Tokens
  <1>1. lastToken \in Nat /\ MaxToken \in Nat /\ Cardinality(I) \in Nat
    BY ItemSetsFinite, ConstantsAssumption DEF TypeOK
  <1>2. \A i \in I : fresh[i] \in Tokens
    BY <1>1, RenumberingsFresh DEF Tokens
  <1>3. native' \in [Tokens -> Tokens \cup {0}]
    BY <1>2 DEF SwapTokens, TypeOK
  <1>4. itemStatus' \in [Tokens -> ItemStatuses]
    BY DEF SwapTokens, TypeOK, Restarted, ItemStatuses
  <1>5. \A t \in {fresh[i] : i \in I} :
          (CHOOSE i \in I : fresh[i] = t) \in I
    OBVIOUS
  <1>6. route' \in [Tokens -> Tokens \cup {NoItem}]
    BY <1>5 DEF SwapTokens
  <1>7. born' \in [Tokens -> Nat]
    BY <1>5 DEF SwapTokens, TypeOK
  <1>8. \A i \in Tokens : native[i] \in Tokens => native'[i] \in Tokens
    BY <1>2 DEF SwapTokens
  <1> QED
    BY <1>1, <1>2, <1>3, <1>4, <1>6, <1>7, <1>8 DEF SwapTokens

LEMMA RestoreTyped ==
  ASSUME TypeOK, Owned, NEW w \in Restorers,
         NEW st \in [Groups -> GroupStatuses],
         NEW rt \in [Tokens -> Tokens \cup {NoItem}],
         NEW todo \in SUBSET Groups,
         RestoreGoesOn(w, st, rt, todo)
  PROVE  TypeOK' /\ Owned'
  <1> DEFINE live == {g \in todo : st[g] \in ActiveStatuses}
  <1>0. (\A i \in Tokens : native[i] \in Tokens => native'[i] \in Tokens)
          => Owned'
    BY DEF RestoreGoesOn, Owned, TypeOK
  <1>1. CASE live = {} /\ status' = st /\ route' = rt
             /\ frame' = [frame EXCEPT ![w] = Idle]
             /\ UNCHANGED <<generation, native, itemStatus, born, lastToken,
                            cids>>
    BY <1>0, <1>1, IdleTyped DEF RestoreGoesOn, TypeOK, Workers, bloombergVars
  <1>2. ASSUME NEW g \in live, NEW fresh \in Renumberings(items[g]),
               lastToken + Cardinality(items[g]) <= MaxToken,
               status' = [st EXCEPT ![g] = "STARTING"],
               generation' = [generation EXCEPT ![g] = @ + 1],
               SwapTokens(items[g], fresh, rt, TRUE),
               cids' = cids \cup {fresh[i] : i \in items[g]},
               frame' = [frame EXCEPT
                 ![w] = Calling("RESTORE", g, {fresh[i] : i \in items[g]},
                                {fresh[i] : i \in items[g]}, todo \ {g})]
        PROVE  TypeOK' /\ Owned'
    <2>1. items[g] \in SUBSET Tokens /\ \A i \in items[g] : owner[i] \in Groups
      BY DEF TypeOK, Owned
    <2>2. /\ native' \in [Tokens -> Tokens \cup {0}]
          /\ itemStatus' \in [Tokens -> ItemStatuses]
          /\ route' \in [Tokens -> Tokens \cup {NoItem}]
          /\ born' \in [Tokens -> Nat]
          /\ lastToken' \in 0..MaxToken
          /\ {fresh[i] : i \in items[g]} \in SUBSET Tokens
          /\ \A i \in Tokens : native[i] \in Tokens => native'[i] \in Tokens
      BY <1>2, <2>1, SwapTyped
    <2>3. frame' \in [Workers -> FrameType]
      BY <1>2, <2>2, FrameTyped DEF TypeOK, Calling, Ops, SubscribeOps
    <2>4. status' \in [Groups -> GroupStatuses]
      BY <1>2 DEF GroupStatuses, ActiveStatuses
    <2>5. generation' \in [Groups -> Nat]
      BY <1>2 DEF TypeOK
    <2> QED
      BY <1>0, <1>2, <2>2, <2>3, <2>4, <2>5
      DEF RestoreGoesOn, TypeOK, Workers, bloombergVars
  <1>3. ASSUME NEW fresh \in Renumberings(UNION {items[g] : g \in live}),
               lastToken + Cardinality(UNION {items[g] : g \in live})
                 <= MaxToken,
               status' = [g \in Groups |-> IF g \in live THEN "FAILED"
                                                         ELSE st[g]],
               generation' = [g \in Groups |-> IF g \in live
                                               THEN generation[g] + 1
                                               ELSE generation[g]],
               SwapTokens(UNION {items[g] : g \in live}, fresh, rt, FALSE),
               frame' = [frame EXCEPT ![w] = Idle],
               UNCHANGED cids
        PROVE  TypeOK' /\ Owned'
    <2> DEFINE I == UNION {items[g] : g \in live}
    <2>1. I \in SUBSET Tokens /\ \A i \in I : owner[i] \in Groups
      BY DEF TypeOK, Owned
    <2>2. /\ native' \in [Tokens -> Tokens \cup {0}]
          /\ itemStatus' \in [Tokens -> ItemStatuses]
          /\ route' \in [Tokens -> Tokens \cup {NoItem}]
          /\ born' \in [Tokens -> Nat]
          /\ lastToken' \in 0..MaxToken
          /\ \A i \in Tokens : native[i] \in Tokens => native'[i] \in Tokens
      BY <1>3, <2>1, SwapTyped
    <2>3. frame' \in [Workers -> FrameType]
      BY <1>3, IdleTyped DEF TypeOK
    <2>4. status' \in [Groups -> GroupStatuses]
      BY <1>3 DEF GroupStatuses
    <2>5. generation' \in [Groups -> Nat]
      BY <1>3 DEF TypeOK
    <2> QED
      BY <1>0, <1>3, <2>2, <2>3, <2>4, <2>5
      DEF RestoreGoesOn, TypeOK, Workers, bloombergVars
  <1> QED
    BY <1>0, <1>1, <1>2, <1>3 DEF RestoreGoesOn

LEMMA EndsTyped ==
  ASSUME TypeOK, NEW g \in Groups \cup {NoGroup}, NEW T \in SUBSET Tokens,
         NEW final \in EndedStatuses, Ends(g, T, final)
  PROVE  /\ route' \in [Tokens -> Tokens \cup {NoItem}]
         /\ itemStatus' \in [Tokens -> ItemStatuses]
         /\ status' \in [Groups -> GroupStatuses]
  <1>1. route' \in [Tokens -> Tokens \cup {NoItem}]
    BY DEF TypeOK, Ends, Unrouted
  <1>2. itemStatus' \in [Tokens -> ItemStatuses]
    BY DEF TypeOK, Ends, ItemStatuses, EndedStatuses
  <1>3. status' \in [Groups -> GroupStatuses]
    BY DEF TypeOK, Ends, GroupStatuses, EndedStatuses
  <1> QED
    BY <1>1, <1>2, <1>3

LEMMA AskedTyped ==
  ASSUME TypeOK, NEW T \in SUBSET Tokens PROVE Asks(T) \in SUBSET Tokens
  BY DEF TypeOK, Asks

\* The stretches of cancel and expire before and after the native call.
LEMMA UnsubscribesTyped ==
  ASSUME TypeOK, NEW w \in Workers, NEW op \in UnsubscribeOps,
         NEW g \in Groups, NEW final \in EndedStatuses, Owned,
         Unsubscribes(w, op, g, final)
  PROVE  TypeOK'
  <1> DEFINE asked == Asks(TokensOf(g))
  <1>0. TokensOf(g) \in SUBSET Tokens
    BY DEF TokensOf, Owned
  <1>1. asked \in SUBSET Tokens
    BY <1>0, AskedTyped
  <1>2. Calling(op, g, TokensOf(g), asked, {}) \in FrameType
    BY <1>0, <1>1, FrameTyped DEF Calling, Ops
  <1>3. frame' \in [Workers -> FrameType]
    BY <1>2 DEF TypeOK, Unsubscribes
  <1>4. CASE UNCHANGED <<route, itemStatus, status>>
    BY <1>1, <1>3, <1>4 DEF TypeOK, Unsubscribes, bloombergVars
  <1>5. CASE Ends(g, TokensOf(g), final)
    BY <1>0, <1>1, <1>3, <1>5, EndsTyped DEF TypeOK, Unsubscribes, bloombergVars
  <1> QED
    BY <1>4, <1>5 DEF Unsubscribes

LEMMA UnsubscribedTyped ==
  ASSUME TypeOK, NEW w \in Workers, NEW op, NEW final \in EndedStatuses,
         Unsubscribed(w, op, final)
  PROVE  TypeOK'
  <1>1. /\ frame[w].tokens \in SUBSET Tokens
        /\ frame[w].group \in Groups \cup {NoGroup}
    BY DEF TypeOK, FrameType
  <1>2. frame' \in [Workers -> FrameType]
    BY IdleTyped DEF TypeOK, Unsubscribed, FailedTokens
  <1>3. Ends(frame[w].group, frame[w].tokens, final)
    BY DEF Unsubscribed, FailedTokens
  <1>4. pending' \subseteq Tokens
    BY <1>1 DEF Unsubscribed, FailedTokens, TypeOK
  <1> QED
    BY <1>1, <1>2, <1>3, <1>4, EndsTyped
    DEF TypeOK, Unsubscribed, FailedTokens, bloombergVars

\* The items made by create and by the commit of a resubscription.
LEMMA NewItemsTyped ==
  ASSUME TypeOK, NEW g \in Groups \cup {NoGroup}, NEW T \in SUBSET Tokens,
         NEW old, NEW gen \in Nat, NewItems(g, T), RouteNew(T, old, gen)
  PROVE  /\ items' \in [Groups -> SUBSET Tokens]
         /\ owner' \in [Tokens -> Groups \cup {NoGroup}]
         /\ native' \in [Tokens -> Tokens \cup {0}]
         /\ itemStatus' \in [Tokens -> ItemStatuses]
         /\ route' \in [Tokens -> Tokens \cup {NoItem}]
         /\ born' \in [Tokens -> Nat]
  BY DEF TypeOK, NewItems, RouteNew, Unrouted, ItemStatuses

LEMMA StatusEventTyped ==
  ASSUME TypeOK, NEW t \in Tokens, NEW new \in ItemStatuses,
         HandleStatus(t, new)
  PROVE  /\ itemStatus' \in [Tokens -> ItemStatuses]
         /\ status' \in [Groups -> GroupStatuses]
  <1>1. \A S : \A old \in GroupStatuses : Recomputed(S, old) \in GroupStatuses
    BY DEF Recomputed, GroupStatuses, ActiveStatuses, EndedStatuses
  <1>2. itemStatus' \in [Tokens -> ItemStatuses]
    BY DEF HandleStatus, TypeOK
  <1>3. status' \in [Groups -> GroupStatuses]
    BY <1>1 DEF HandleStatus, TypeOK
  <1> QED
    BY <1>2, <1>3

LEMMA DeliversTyped ==
  ASSUME TypeOK, NEW w \in Workers, NEW o \in {"OK", "FAILED"}, Delivers(w, o)
  PROVE  frame' \in [Workers -> FrameType]
  <1>1. frame[w] \in FrameType
    BY DEF TypeOK
  <1>2. [frame[w] EXCEPT !.stage = o] \in FrameType
    BY <1>1 DEF FrameType
  <1>3. CASE frame[w].op \in AbandonedOps
    <2>1. frame' = [frame EXCEPT ![w] = Idle]
      BY <1>3 DEF Delivers
    <2> QED
      BY <2>1, IdleTyped DEF TypeOK
  <1>4. CASE frame[w].op \notin AbandonedOps
    <2>1. frame' = [frame EXCEPT ![w] = [frame[w] EXCEPT !.stage = o]]
      BY <1>4 DEF Delivers
    <2> QED
      BY <1>2, <2>1 DEF TypeOK
  <1> QED
    BY <1>3, <1>4

LEMMA NextTypeOK ==
  TypeOK /\ Owned /\ Prospective /\ [Next]_vars => TypeOK'
  <1> SUFFICES ASSUME TypeOK, Owned, Prospective, [Next]_vars PROVE TypeOK'
    OBVIOUS
  <1> USE ConstantsAssumption
      DEF groupVars, itemVars, routeVars, bloombergVars
  <1>0. \A w \in Workers : /\ frame[w] \in FrameType
                           /\ frame[w].tokens \in SUBSET Tokens
                           /\ frame[w].todo \in SUBSET Groups
                           /\ frame[w].group \in Groups \cup {NoGroup}
    BY DEF TypeOK, FrameType
  <1>1. Callers \subseteq Workers /\ Restorers \subseteq Workers
        /\ Sweeper \in Workers
    BY DEF Workers
  <1>2. ASSUME NEW w \in Callers, NEW g \in Groups, NEW n \in ItemCounts,
               CreateBegins(w, g, n)
        PROVE  TypeOK'
    <2>1. Fresh(n) \in SUBSET Tokens /\ lastToken + n \in 0..MaxToken
      BY <1>2, FreshTyped DEF CreateBegins
    <2>2. CASE session = "CONNECTED"
      <3>1. NewItems(g, Fresh(n)) /\ RouteNew(Fresh(n), {}, 1)
        BY <1>2, <2>2 DEF CreateBegins
      <3>2. frame' \in [Workers -> FrameType]
        BY <1>2, <2>1, <2>2, FrameTyped
        DEF CreateBegins, TypeOK, Calling, Ops, SubscribeOps
      <3>3. status' \in [Groups -> GroupStatuses]
        BY <1>2, <2>2
        DEF CreateBegins, TypeOK, GroupStatuses, ActiveStatuses
      <3>4. generation' \in [Groups -> Nat]
        BY <1>2, <2>2 DEF CreateBegins, TypeOK
      <3> QED
        BY <1>2, <2>1, <2>2, <3>1, <3>2, <3>3, <3>4, NewItemsTyped
        DEF CreateBegins, TypeOK
    <2>3. CASE session # "CONNECTED"
      BY <1>2, <2>1, <2>3 DEF CreateBegins, TypeOK
    <2> QED
      BY <2>2, <2>3
  <1>3. ASSUME NEW w \in Callers, NEW g \in Groups, NEW n \in ItemCounts,
               ResubscribeBegins(w, g, n)
        PROVE  TypeOK'
    <2>1. Fresh(n) \in SUBSET Tokens /\ lastToken + n \in 0..MaxToken
      BY <1>3, FreshTyped DEF ResubscribeBegins
    <2>2. Calling("RESUBSCRIBE", g, Fresh(n), Fresh(n), {}) \in FrameType
      BY <2>1, FrameTyped DEF Calling, Ops, SubscribeOps
    <2> QED
      BY <1>3, <2>1, <2>2 DEF ResubscribeBegins, TypeOK
  <1>4. ASSUME NEW w \in Callers, NEW g \in Groups, CancelBegins(w, g)
        PROVE  TypeOK'
    BY <1>1, <1>4, UnsubscribesTyped
    DEF CancelBegins, UnsubscribeOps, EndedStatuses
  <1>5. ASSUME NEW w \in Callers, CreateReturns(w) PROVE TypeOK'
    BY <1>1, <1>5, IdleTyped DEF CreateReturns, TypeOK, Unrouted
  <1>6. ASSUME NEW w \in Callers, ResubscribeCommits(w) PROVE TypeOK'
    <2> DEFINE g == frame[w].group
    <2>1. NewItems(g, frame[w].tokens)
          /\ RouteNew(frame[w].tokens, TokensOf(g), generation[g] + 1)
      BY <1>6 DEF ResubscribeCommits
    <2>2. g \in Groups
      BY <1>1, <1>6 DEF Prospective, ResubscribeCommits, Returned
    <2>3. TokensOf(g) \subseteq Tokens
      BY <2>2 DEF TokensOf, Owned
    <2>4. generation[g] + 1 \in Nat
      BY <2>2 DEF TypeOK
    <2>5. frame' \in [Workers -> FrameType]
      BY <1>6, IdleTyped DEF ResubscribeCommits, TypeOK
    <2>6. status' \in [Groups -> GroupStatuses]
      BY <1>6 DEF ResubscribeCommits, TypeOK, GroupStatuses, ActiveStatuses
    <2>7. generation' \in [Groups -> Nat]
      BY <1>6, <2>4 DEF ResubscribeCommits, TypeOK
    <2>8. pending' \subseteq Tokens
      BY <1>6, <2>3 DEF ResubscribeCommits, TypeOK
    <2> HIDE DEF g
    <2>9. NewItems(g, frame[w].tokens) /\ frame[w].tokens \in SUBSET Tokens
      BY <1>0, <1>1, <2>1
    <2>10. /\ items' \in [Groups -> SUBSET Tokens]
           /\ owner' \in [Tokens -> Groups \cup {NoGroup}]
           /\ native' \in [Tokens -> Tokens \cup {0}]
           /\ itemStatus' \in [Tokens -> ItemStatuses]
           /\ route' \in [Tokens -> Tokens \cup {NoItem}]
           /\ born' \in [Tokens -> Nat]
      BY <2>1, <2>2, <2>4, <2>9, NewItemsTyped
    <2> QED
      BY <1>6, <2>5, <2>6, <2>7, <2>8, <2>10 DEF ResubscribeCommits, TypeOK
  <1>7. ASSUME NEW w \in Callers, ResubscribeFails(w) PROVE TypeOK'
    <2> DEFINE asked == Asks(frame[w].tokens)
    <2>1. asked \in SUBSET Tokens
      BY <1>0, <1>1, AskedTyped
    <2>2. Calling("ROLLBACK", frame[w].group, frame[w].tokens, asked, {})
            \in FrameType
      BY <1>0, <1>1, <2>1, FrameTyped DEF Calling, Ops, UnsubscribeOps
    <2> QED
      BY <1>1, <1>7, <2>1, <2>2, IdleTyped
      DEF ResubscribeFails, TypeOK, Unrouted
  <1>8. ASSUME NEW w \in Callers, RollbackReturns(w) PROVE TypeOK'
    BY <1>1, <1>8, IdleTyped DEF RollbackReturns, TypeOK, Unrouted
  <1>9. ASSUME NEW w \in Callers, CancelReturns(w) PROVE TypeOK'
    BY <1>1, <1>9, UnsubscribedTyped DEF CancelReturns, EndedStatuses
  <1>10. ASSUME NEW g \in Groups, ExpireBegins(g) PROVE TypeOK'
    BY <1>1, <1>10, UnsubscribesTyped
    DEF ExpireBegins, UnsubscribeOps, EndedStatuses
  <1>11. ASSUME ExpireReturns PROVE TypeOK'
    BY <1>1, <1>11, UnsubscribedTyped DEF ExpireReturns, EndedStatuses
  <1>12. ASSUME NEW t \in Tokens, RetryBegins(t) PROVE TypeOK'
    <2>1. Asks({t}) \in SUBSET Tokens
      BY AskedTyped
    <2>2. Calling("RETRY", NoGroup, {t}, Asks({t}), {}) \in FrameType
      BY <2>1, FrameTyped DEF Calling, Ops, UnsubscribeOps
    <2> QED
      BY <1>1, <1>12, <2>1, <2>2 DEF RetryBegins, TypeOK
  <1>13. ASSUME RetryReturns PROVE TypeOK'
    BY <1>1, <1>13, IdleTyped DEF RetryReturns, TypeOK
  <1>14. ASSUME NEW w \in Restorers, Reconnect(w) PROVE TypeOK'
    <2>1. [frame[w] EXCEPT !.op = "RESTORE_DUE"] \in FrameType
      BY <1>0, <1>1 DEF FrameType, Ops
    <2> QED
      BY <1>1, <1>14, <2>1 DEF Reconnect, TypeOK
  <1>15. ASSUME NEW w \in Restorers, RestoreBegins(w) PROVE TypeOK'
    <2>1. CASE session = "CONNECTED"
      BY <1>15, <2>1, RestoreTyped DEF RestoreBegins, TypeOK
    <2>2. CASE session # "CONNECTED"
      BY <1>1, <1>15, <2>2, IdleTyped DEF RestoreBegins, TypeOK
    <2> QED
      BY <2>1, <2>2
  <1>16. ASSUME NEW w \in Restorers, RestoreReturns(w) PROVE TypeOK'
    <2>1. /\ [status EXCEPT ![frame[w].group] = "FAILED"]
               \in [Groups -> GroupStatuses]
          /\ Unrouted(frame[w].tokens) \in [Tokens -> Tokens \cup {NoItem}]
          /\ status \in [Groups -> GroupStatuses]
          /\ route \in [Tokens -> Tokens \cup {NoItem}]
      BY DEF TypeOK, GroupStatuses, Unrouted
    <2>2. CASE frame[w].stage = "OK"
      BY <1>0, <1>1, <1>16, <2>1, <2>2, RestoreTyped DEF RestoreReturns
    <2>3. CASE frame[w].stage # "OK"
      BY <1>0, <1>1, <1>16, <2>1, <2>3, RestoreTyped DEF RestoreReturns
    <2> QED
      BY <2>2, <2>3
  <1>17. ASSUME NEW w \in Workers, SubscribeCallReturns(w) PROVE TypeOK'
    <2>1. frame' \in [Workers -> FrameType]
      BY <1>17, DeliversTyped DEF SubscribeCallReturns
    <2> QED
      BY <1>17, <2>1 DEF SubscribeCallReturns, TypeOK, FeedStates
  <1>18. ASSUME NEW w \in Workers, UnsubscribeCallReturns(w) PROVE TypeOK'
    <2>1. frame' \in [Workers -> FrameType]
      BY <1>18, DeliversTyped DEF UnsubscribeCallReturns
    <2> QED
      BY <1>18, <2>1 DEF UnsubscribeCallReturns, TypeOK, FeedStates
  <1>19. ASSUME NEW t \in Tokens, Event(t) PROVE TypeOK'
    <2>1. "ACTIVE" \in ItemStatuses /\ "FAILED" \in ItemStatuses
          /\ "CANCELLED" \in ItemStatuses
      BY DEF ItemStatuses
    <2>2. CASE EventStarted(t)
      BY <2>1, <2>2, StatusEventTyped DEF EventStarted, TypeOK
    <2>3. CASE EventFailed(t)
      BY <2>1, <2>3, StatusEventTyped DEF EventFailed, TypeOK, FeedStates
    <2>4. CASE EventUnsubscribed(t)
      BY <2>1, <2>4, StatusEventTyped DEF EventUnsubscribed, TypeOK
    <2> QED
      BY <1>19, <2>2, <2>3, <2>4 DEF Event
  <1>20. ASSUME NEW g \in Groups, TimeToLivePasses(g) PROVE TypeOK'
    BY <1>20 DEF TimeToLivePasses, TypeOK
  <1>21. ASSUME LoseSession PROVE TypeOK'
    BY <1>21 DEF LoseSession, TypeOK, FeedStates
  <1>22. ASSUME TearDown PROVE TypeOK'
    BY <1>22 DEF TearDown, TypeOK
  <1>23. CASE UNCHANGED vars
    BY <1>23 DEF vars, TypeOK
  <1>24. ASSUME NEW w \in Callers, NEW n \in ItemCounts, CreateInvalid(w, n)
         PROVE  TypeOK'
    <2>1. Fresh(n) \in SUBSET Tokens /\ lastToken' \in 0..MaxToken
      BY <1>24, FreshTyped DEF CreateInvalid
    <2> QED
      BY <1>24, <2>1 DEF CreateInvalid, TypeOK
  <1>25. ASSUME NEW w \in Callers, Abandon(w) PROVE TypeOK'
    <2>1. w \in Workers
      BY <1>25 DEF Workers
    <2>2. /\ frame[w].tokens \in SUBSET Tokens
          /\ frame[w].asked \in SUBSET Tokens
          /\ frame[w].group \in Groups \cup {NoGroup}
      BY <2>1 DEF TypeOK, FrameType
    <2>3. \A op \in AbandonedOps :
            Calling(op, frame[w].group, frame[w].tokens, frame[w].asked, {})
              \in FrameType
      BY <2>2, FrameTyped DEF Calling, Ops
    <2>4. frame' \in [Workers -> FrameType]
      BY <1>25, <2>1, <2>3, IdleTyped DEF Abandon, AbandonedOps, TypeOK
    <2> QED
      BY <1>25, <2>4 DEF Abandon, TypeOK
  <1>26. ASSUME StartNative PROVE TypeOK'
    BY <1>26 DEF StartNative, TypeOK
  <1> QED
    BY <1>2, <1>3, <1>4, <1>5, <1>6, <1>7, <1>8, <1>9, <1>10, <1>11, <1>12,
       <1>13, <1>14, <1>15, <1>16, <1>17, <1>18, <1>19, <1>20, <1>21, <1>22,
       <1>23, <1>24, <1>25, <1>26
    DEF Next, Client, Resume, Sweep, Restore, CallReturns

-----------------------------------------------------------------------------
(* Routing.  The inductive invariant says, besides the three properties,   *)
(* that every token in use was allocated and that a resubscription in      *)
(* progress holds tokens no one else knows.                                *)

\* Tokens in use have been allocated, so the next one is new.
Allocated ==
  /\ \A g \in Groups : \A i \in items[g] : i <= lastToken
                                           /\ native[i] <= lastToken
  /\ \A t \in pending : t <= lastToken
  /\ \A t \in Tokens : /\ route[t] <= lastToken
                       /\ owner[t] # NoGroup => t <= lastToken
  /\ \A w \in Workers : \A t \in frame[w].tokens : t <= lastToken

\* A group that was not created has no items.
UnmadeEmpty == \A g \in Groups : status[g] = "UNMADE" => items[g] = {}

RoutingInv ==
  /\ TypeOK
  /\ Owned
  /\ Prospective
  /\ Allocated
  /\ UnmadeEmpty
  /\ RoutedTokensAreCurrent
  /\ EventsOfCurrentGeneration
  /\ PendingAreRetired

LEMMA InitRouting == Init => RoutingInv
  <1> SUFFICES ASSUME Init PROVE RoutingInv
    OBVIOUS
  <1>1. TypeOK
    BY InitType
  <1> QED
    BY <1>1
    DEF Init, RoutingInv, Owned, Prospective, Allocated, UnmadeEmpty,
        Located, RoutedTokensAreCurrent, EventsOfCurrentGeneration,
        PendingAreRetired, Idle, Frame, NoItem

\* A coroutine keeps the tokens it has, or takes up tokens of items or of
\* failed teardowns, and none begins a resubscription.
HarmlessFrame(w) ==
  \/ /\ frame'[w].tokens = frame[w].tokens
     /\ frame'[w].group = frame[w].group
     /\ frame'[w].op \in {frame[w].op} \/ frame'[w].op # "RESUBSCRIBE"
  \/ /\ frame'[w].op # "RESUBSCRIBE"
     /\ \A t \in frame'[w].tokens :
          t \in pending \/ \E g \in Groups : t \in TokensOf(g)

\* A step that neither makes items nor gives any a new token; routes only go.
HarmlessStep ==
  /\ UNCHANGED <<items, owner, native, generation, born>>
  /\ \A t \in Tokens : route'[t] \in {NoItem, route[t]}
  /\ lastToken <= lastToken'
  /\ \A w \in Workers : HarmlessFrame(w)
  /\ \A t \in pending' : \/ t \in pending
                         \/ /\ route'[t] = NoItem
                            /\ \E w \in Workers : /\ frame[w].op # "RESUBSCRIBE"
                                                  /\ t \in frame[w].tokens
  /\ \A g \in Groups : status'[g] = "UNMADE" => status[g] = "UNMADE"

LEMMA HarmlessKeeps == RoutingInv /\ TypeOK' /\ HarmlessStep => RoutingInv'
  <1> SUFFICES ASSUME RoutingInv, TypeOK', HarmlessStep PROVE RoutingInv'
    OBVIOUS
  <1> USE DEF RoutingInv
  <1>0. lastToken \in Nat /\ lastToken' \in Nat /\ lastToken <= lastToken'
        /\ Tokens \subseteq Nat /\ NoItem \notin Tokens /\ NoItem <= lastToken'
        /\ route \in [Tokens -> Tokens \cup {NoItem}]
        /\ pending' \subseteq Tokens
        /\ \A w \in Workers : frame[w].tokens \subseteq Tokens
                              /\ frame'[w].tokens \subseteq Tokens
    BY ConstantsAssumption DEF TypeOK, HarmlessStep, Tokens, FrameType, NoItem
  <1>1. Owned'
    BY DEF Owned, HarmlessStep
  <1>2. UnmadeEmpty'
    BY DEF UnmadeEmpty, HarmlessStep
  <1>3. RoutedTokensAreCurrent' /\ EventsOfCurrentGeneration'
    BY DEF Located, RoutedTokensAreCurrent, EventsOfCurrentGeneration,
           HarmlessStep
  <1>4. PendingAreRetired'
    BY <1>0 DEF PendingAreRetired, HarmlessStep, TypeOK
  <1>5. Allocated'
    <2>1. \A g \in Groups : \A t \in TokensOf(g) : t <= lastToken
      BY DEF Allocated, TokensOf
    <2>2. \A t \in Nat : t <= lastToken => t <= lastToken'
      BY <1>0
    <2>3. \A w \in Workers : \A t \in frame'[w].tokens : t <= lastToken'
      BY <1>0, <2>1, <2>2 DEF Allocated, HarmlessStep, HarmlessFrame
    <2>4. \A t \in pending' : t <= lastToken'
      BY <1>0, <2>2 DEF Allocated, HarmlessStep
    <2>5. \A g \in Groups : \A i \in items'[g] : i <= lastToken'
                                              /\ native'[i] <= lastToken'
      BY <1>0, <2>2 DEF Allocated, HarmlessStep, Owned, TypeOK
    <2>6. ASSUME NEW t \in Tokens PROVE route'[t] <= lastToken'
      <3>1. CASE route'[t] = NoItem
        BY <1>0, <3>1
      <3>2. CASE route'[t] # NoItem
        <4>1. route'[t] = route[t] /\ route[t] \in Tokens
          BY <1>0, <3>2 DEF HarmlessStep
        <4> QED
          BY <1>0, <2>2, <4>1 DEF Allocated
      <3> QED
        BY <3>1, <3>2
    <2>7. ASSUME NEW t \in Tokens, owner'[t] # NoGroup PROVE t <= lastToken'
      <3>1. owner[t] # NoGroup
        BY <2>7 DEF HarmlessStep
      <3> QED
        BY <1>0, <2>2, <3>1 DEF Allocated
    <2> QED
      BY <2>3, <2>4, <2>5, <2>6, <2>7 DEF Allocated
  <1>6. Prospective'
    <2> SUFFICES ASSUME NEW w \in Workers, frame'[w].op = "RESUBSCRIBE"
                 PROVE  /\ frame'[w].group \in Groups
                        /\ \A t \in frame'[w].tokens :
                             /\ t \notin pending'
                             /\ \A s \in Tokens : route'[s] # t
                             /\ \A g \in Groups : \A i \in items'[g] :
                                  i # t /\ native'[i] # t
                             /\ \A v \in Workers \ {w} :
                                  t \notin frame'[v].tokens
      BY DEF Prospective
    <2>1. /\ frame[w].op = "RESUBSCRIBE"
          /\ frame'[w].tokens = frame[w].tokens
          /\ frame'[w].group = frame[w].group
      BY DEF HarmlessStep, HarmlessFrame
    <2>2. ASSUME NEW t \in frame[w].tokens
          PROVE  /\ t \notin pending
                 /\ \A s \in Tokens : route[s] # t
                 /\ \A g \in Groups : t \notin TokensOf(g)
                 /\ \A g \in Groups : \A i \in items[g] :
                      i # t /\ native[i] # t
                 /\ \A v \in Workers \ {w} : t \notin frame[v].tokens
      BY <2>1 DEF Prospective, TokensOf
    <2>3. ASSUME NEW t \in frame[w].tokens PROVE t \notin pending'
      BY <2>1, <2>2 DEF HarmlessStep
    <2>4. ASSUME NEW t \in frame[w].tokens, NEW v \in Workers \ {w}
          PROVE  t \notin frame'[v].tokens
      BY <2>2 DEF HarmlessStep, HarmlessFrame
    <2>5. ASSUME NEW t \in frame[w].tokens, NEW s \in Tokens
          PROVE  route'[s] # t
      BY <1>0, <2>2 DEF HarmlessStep
    <2> QED
      BY <2>1, <2>2, <2>3, <2>4, <2>5 DEF Prospective, HarmlessStep
  <1> QED
    BY <1>1, <1>2, <1>3, <1>4, <1>5, <1>6

\* A frame that goes idle, and the frames a step does not touch.
LEMMA IdleHarmless ==
  ASSUME NEW w \in Workers, frame'[w] = Idle PROVE HarmlessFrame(w)
  BY DEF HarmlessFrame, Idle, Frame

LEMMA SameHarmless ==
  ASSUME NEW w \in Workers, frame'[w] = frame[w] PROVE HarmlessFrame(w)
  BY DEF HarmlessFrame

LEMMA DeliversHarmless ==
  ASSUME TypeOK, NEW w \in Workers, NEW o, Delivers(w, o), NEW v \in Workers
  PROVE  HarmlessFrame(v)
  <1>1. CASE v # w
    BY <1>1, SameHarmless DEF Delivers, TypeOK
  <1>2. CASE v = w /\ frame[w].op \in AbandonedOps
    <2>1. frame'[w] = Idle
      BY <1>2 DEF Delivers, TypeOK
    <2> QED
      BY <1>2, <2>1, IdleHarmless
  <1>3. CASE v = w /\ frame[w].op \notin AbandonedOps
    <2>1. frame'[w] = [frame[w] EXCEPT !.stage = o]
      BY <1>3 DEF Delivers, TypeOK
    <2>2. frame[w] \in FrameType
      BY DEF TypeOK
    <2>3. /\ frame'[w].tokens = frame[w].tokens
          /\ frame'[w].group = frame[w].group
          /\ frame'[w].op = frame[w].op
      BY <2>1, <2>2 DEF FrameType
    <2> QED
      BY <1>3, <2>3 DEF HarmlessFrame
  <1> QED
    BY <1>1, <1>2, <1>3

LEMMA AbandonHarmless ==
  ASSUME TypeOK, NEW w \in Workers, Abandon(w), NEW v \in Workers
  PROVE  HarmlessFrame(v)
  <1>1. ASSUME NEW op \in AbandonedOps, v = w,
               frame'[w] = Calling(op, frame[w].group, frame[w].tokens,
                                   frame[w].asked, {})
        PROVE  HarmlessFrame(v)
    BY <1>1 DEF HarmlessFrame, Calling, Frame, AbandonedOps
  <1> QED
    BY <1>1, IdleHarmless, SameHarmless DEF Abandon, AbandonedOps, TypeOK

LEMMA UnroutedShrinks ==
  ASSUME NEW T
  PROVE  \A t \in Tokens : Unrouted(T)[t] \in {NoItem, route[t]}
  BY DEF Unrouted

LEMMA UnsubscribesHarmless ==
  ASSUME TypeOK, NEW w \in Workers, NEW op \in UnsubscribeOps,
         NEW g \in Groups, NEW final \in EndedStatuses,
         Unsubscribes(w, op, g, final)
  PROVE  HarmlessStep
  <1>1. ASSUME NEW v \in Workers PROVE HarmlessFrame(v)
    <2>1. CASE frame'[v] = Calling(op, g, TokensOf(g), Asks(TokensOf(g)), {})
      BY <2>1 DEF HarmlessFrame, Calling, Frame, UnsubscribeOps
    <2> QED
      BY <2>1, SameHarmless DEF Unsubscribes, TypeOK
  <1>2. \A t \in Tokens : route'[t] \in {NoItem, route[t]}
    BY UnroutedShrinks DEF Unsubscribes, Ends
  <1>3. \A h \in Groups : status'[h] = "UNMADE" => status[h] = "UNMADE"
    BY DEF Unsubscribes, Ends, EndedStatuses, TypeOK
  <1> QED
    BY <1>1, <1>2, <1>3 DEF HarmlessStep, Unsubscribes, TypeOK

LEMMA UnsubscribedHarmless ==
  ASSUME TypeOK, NEW w \in Workers, NEW op \in UnsubscribeOps,
         NEW final \in EndedStatuses, Unsubscribed(w, op, final)
  PROVE  HarmlessStep
  <1>1. ASSUME NEW v \in Workers PROVE HarmlessFrame(v)
    BY IdleHarmless, SameHarmless DEF Unsubscribed, FailedTokens, TypeOK
  <1>2. \A t \in Tokens : route'[t] \in {NoItem, route[t]}
    BY UnroutedShrinks DEF Unsubscribed, FailedTokens, Ends
  <1>3. \A h \in Groups : status'[h] = "UNMADE" => status[h] = "UNMADE"
    BY DEF Unsubscribed, FailedTokens, Ends, EndedStatuses, TypeOK
  <1>4. frame[w].op # "RESUBSCRIBE" /\ frame[w].tokens \subseteq Tokens
    BY DEF Unsubscribed, FailedTokens, Returned, UnsubscribeOps, TypeOK, FrameType
  <1>5. ASSUME NEW t \in pending', t \notin pending
        PROVE  t \in frame[w].tokens /\ route'[t] = NoItem
    BY <1>4, <1>5 DEF Unsubscribed, FailedTokens, Ends, Unrouted
  <1> QED
    BY <1>1, <1>2, <1>3, <1>4, <1>5 DEF HarmlessStep, Unsubscribed, FailedTokens, TypeOK

LEMMA EventHarmless ==
  ASSUME TypeOK, NEW t \in Tokens, Event(t) PROVE HarmlessStep
  <1>1. \A S, old : Recomputed(S, old) = "UNMADE" => old = "UNMADE"
    BY DEF Recomputed
  <1>2. \A new : HandleStatus(t, new) =>
          \A g \in Groups : status'[g] = "UNMADE" => status[g] = "UNMADE"
    BY <1>1 DEF HandleStatus, TypeOK
  <1>3. /\ UNCHANGED <<items, owner, native, generation, routeVars, lastToken,
                       frame, pending>>
        /\ \E new : HandleStatus(t, new)
    BY DEF Event, EventStarted, EventFailed, EventUnsubscribed
  <1>4. \A v \in Workers : HarmlessFrame(v)
    BY <1>3, SameHarmless
  <1> QED
    BY <1>2, <1>3, <1>4 DEF HarmlessStep, routeVars, TypeOK

\* Every step but the five that make items or give them new tokens.
LEMMA HarmlessActions ==
  ASSUME TypeOK
  PROVE  /\ \A w \in Callers : CreateReturns(w) => HarmlessStep
         /\ \A w \in Callers : ResubscribeFails(w) => HarmlessStep
         /\ \A w \in Callers : RollbackReturns(w) => HarmlessStep
         /\ \A w \in Callers, g \in Groups : CancelBegins(w, g) => HarmlessStep
         /\ \A w \in Callers : CancelReturns(w) => HarmlessStep
         /\ Sweep => HarmlessStep
         /\ \A w \in Restorers : Reconnect(w) => HarmlessStep
         /\ \A w \in Workers : CallReturns(w) => HarmlessStep
         /\ \A t \in Tokens : Event(t) => HarmlessStep
         /\ \A g \in Groups : TimeToLivePasses(g) => HarmlessStep
         /\ \A w \in Callers : Abandon(w) => HarmlessStep
         /\ LoseSession \/ TearDown \/ StartNative \/ UNCHANGED vars
              => HarmlessStep
  <1> USE DEF groupVars, itemVars, routeVars, bloombergVars
  <1>0. Callers \subseteq Workers /\ Restorers \subseteq Workers
        /\ Sweeper \in Workers /\ lastToken \in Nat
    BY ConstantsAssumption DEF Workers, TypeOK
  <1>1. ASSUME NEW w \in Callers, CreateReturns(w) PROVE HarmlessStep
    <2>1. \A v \in Workers : HarmlessFrame(v)
      BY <1>1, IdleHarmless, SameHarmless DEF CreateReturns, TypeOK
    <2>2. \A t \in Tokens : route'[t] \in {NoItem, route[t]}
      BY <1>1, UnroutedShrinks DEF CreateReturns
    <2> QED
      BY <1>0, <1>1, <2>1, <2>2 DEF CreateReturns, HarmlessStep
  <1>2. ASSUME NEW w \in Callers, ResubscribeFails(w) PROVE HarmlessStep
    <2>1. \A t \in Tokens : route'[t] \in {NoItem, route[t]}
      BY <1>2, UnroutedShrinks DEF ResubscribeFails
    <2>2. ASSUME NEW v \in Workers PROVE HarmlessFrame(v)
      <3>1. CASE frame'[v] = Calling("ROLLBACK", frame[v].group,
                               frame[v].tokens, Asks(frame[v].tokens), {})
        BY <3>1 DEF HarmlessFrame, Calling, Frame
      <3> QED
        BY <1>2, <3>1, IdleHarmless, SameHarmless DEF ResubscribeFails, TypeOK
    <2> QED
      BY <1>0, <1>2, <2>1, <2>2 DEF ResubscribeFails, HarmlessStep
  <1>3. ASSUME NEW w \in Callers, RollbackReturns(w) PROVE HarmlessStep
    <2>1. \A v \in Workers : HarmlessFrame(v)
      BY <1>3, IdleHarmless, SameHarmless DEF RollbackReturns, TypeOK
    <2>2. \A t \in Tokens : route'[t] \in {NoItem, route[t]}
      BY <1>3, UnroutedShrinks DEF RollbackReturns
    <2> QED
      BY <1>0, <1>3, <2>1, <2>2 DEF RollbackReturns, HarmlessStep
  <1>4. ASSUME NEW w \in Callers, NEW g \in Groups, CancelBegins(w, g)
        PROVE  HarmlessStep
    BY <1>0, <1>4, UnsubscribesHarmless
    DEF CancelBegins, UnsubscribeOps, EndedStatuses
  <1>5. ASSUME NEW w \in Callers, CancelReturns(w) PROVE HarmlessStep
    BY <1>0, <1>5, UnsubscribedHarmless
    DEF CancelReturns, UnsubscribeOps, EndedStatuses
  <1>6. ASSUME Sweep PROVE HarmlessStep
    <2>1. ASSUME NEW g \in Groups, ExpireBegins(g) PROVE HarmlessStep
      BY <1>0, <2>1, UnsubscribesHarmless
      DEF ExpireBegins, UnsubscribeOps, EndedStatuses
    <2>2. ASSUME ExpireReturns PROVE HarmlessStep
      BY <1>0, <2>2, UnsubscribedHarmless
      DEF ExpireReturns, UnsubscribeOps, EndedStatuses
    <2>3. ASSUME NEW t \in Tokens, RetryBegins(t) PROVE HarmlessStep
      <3>1. ASSUME NEW v \in Workers PROVE HarmlessFrame(v)
        <4>1. CASE frame'[v] = Calling("RETRY", NoGroup, {t}, Asks({t}), {})
          BY <2>3, <4>1 DEF HarmlessFrame, Calling, Frame, RetryBegins
        <4> QED
          BY <2>3, <4>1, SameHarmless DEF RetryBegins, TypeOK
      <3> QED
        BY <1>0, <2>3, <3>1 DEF RetryBegins, HarmlessStep
    <2>4. ASSUME RetryReturns PROVE HarmlessStep
      <3>1. \A v \in Workers : HarmlessFrame(v)
        BY <2>4, IdleHarmless, SameHarmless DEF RetryReturns, TypeOK
      <3> QED
        BY <1>0, <2>4, <3>1 DEF RetryReturns, HarmlessStep
    <2> QED
      BY <1>6, <2>1, <2>2, <2>3, <2>4 DEF Sweep
  <1>7. ASSUME NEW w \in Restorers, Reconnect(w) PROVE HarmlessStep
    <2>1. \A v \in Workers : HarmlessFrame(v)
      BY <1>7 DEF Reconnect, HarmlessFrame, TypeOK, FrameType
    <2>2. UNCHANGED <<items, owner, native, generation, born, route, lastToken,
                      pending, status>>
      BY <1>7 DEF Reconnect
    <2> QED
      BY <1>0, <2>1, <2>2 DEF HarmlessStep
  <1>8. ASSUME NEW w \in Workers, CallReturns(w) PROVE HarmlessStep
    <2>1. \A v \in Workers : HarmlessFrame(v)
      BY <1>8, DeliversHarmless
      DEF CallReturns, SubscribeCallReturns, UnsubscribeCallReturns
    <2>2. UNCHANGED <<items, owner, native, generation, born, route, lastToken,
                      pending, status>>
      BY <1>8 DEF CallReturns, SubscribeCallReturns, UnsubscribeCallReturns
    <2> QED
      BY <1>0, <2>1, <2>2 DEF HarmlessStep
  <1>9. ASSUME NEW t \in Tokens, Event(t) PROVE HarmlessStep
    BY <1>9, EventHarmless
  <1>10. ASSUME NEW g \in Groups, TimeToLivePasses(g) PROVE HarmlessStep
    <2>1. \A v \in Workers : HarmlessFrame(v)
      BY <1>10, SameHarmless DEF TimeToLivePasses
    <2> QED
      BY <1>0, <1>10, <2>1 DEF TimeToLivePasses, HarmlessStep
  <1>11. ASSUME LoseSession \/ TearDown \/ StartNative \/ UNCHANGED vars
         PROVE  HarmlessStep
    <2>1. \A v \in Workers : HarmlessFrame(v)
      BY <1>11, SameHarmless DEF LoseSession, TearDown, StartNative, vars
    <2> QED
      BY <1>0, <1>11, <2>1
      DEF LoseSession, TearDown, StartNative, vars, HarmlessStep
  <1>12. ASSUME NEW w \in Callers, Abandon(w) PROVE HarmlessStep
    <2>1. \A v \in Workers : HarmlessFrame(v)
      BY <1>0, <1>12, AbandonHarmless
    <2>2. UNCHANGED <<items, owner, native, generation, born, route, lastToken,
                      pending, status>>
      BY <1>12 DEF Abandon
    <2> QED
      BY <1>0, <2>1, <2>2 DEF HarmlessStep
  <1> QED
    BY <1>1, <1>2, <1>3, <1>4, <1>5, <1>6, <1>7, <1>8, <1>9, <1>10, <1>11, <1>12

-----------------------------------------------------------------------------
(* The steps that make items or give them new tokens.                      *)

\* A token allocated in this step.
NewToken(t) == lastToken < t /\ t <= lastToken'

\* Whatever is taken into use is new or was held by the coroutine itself: then
\* the resubscriptions of the other coroutines keep their tokens to themselves.
LEMMA OthersKeepTheirTokens ==
  ASSUME RoutingInv, TypeOK', NEW w \in Workers, lastToken <= lastToken',
         \A v \in Workers \ {w} : frame'[v] = frame[v],
         frame'[w].op # "RESUBSCRIBE",
         \A t \in frame'[w].tokens : NewToken(t),
         \A t \in pending' : t \in pending
                             \/ \E g \in Groups : t \in TokensOf(g),
         \A g \in Groups : \A i \in items'[g] :
           /\ i \in items[g] \/ NewToken(i) \/ i \in frame[w].tokens
           /\ \/ i \in items[g] /\ native'[i] = native[i]
              \/ NewToken(native'[i])
              \/ native'[i] \in frame[w].tokens,
         \A s \in Tokens :
           \/ route'[s] \in {NoItem, route[s]} \cup frame[w].tokens
           \/ NewToken(route'[s])
           \/ \E g \in Groups : route'[s] \in items[g],
         \A s \in Tokens :
           owner'[s] = owner[s] \/ NewToken(s) \/ s \in frame[w].tokens
  PROVE  Allocated' /\ Prospective'
  <1> USE DEF RoutingInv
  <1>0. /\ lastToken \in Nat /\ lastToken' \in Nat
        /\ Tokens \subseteq Nat /\ pending' \subseteq Tokens
        /\ NoItem \notin Tokens /\ NoItem \in Nat /\ NoItem <= lastToken'
        /\ route \in [Tokens -> Tokens \cup {NoItem}]
        /\ route' \in [Tokens -> Tokens \cup {NoItem}]
        /\ \A v \in Workers : frame[v].tokens \subseteq Tokens
                              /\ frame'[v].tokens \subseteq Tokens
        /\ \A g \in Groups : items[g] \subseteq Tokens
                             /\ items'[g] \subseteq Tokens
        /\ native' \in [Tokens -> Tokens \cup {0}]
        /\ native \in [Tokens -> Tokens \cup {0}]
    BY ConstantsAssumption DEF TypeOK, Tokens, FrameType, NoItem
  <1>1. \A t \in Nat : t <= lastToken => t <= lastToken'
    BY <1>0
  <1>2. Allocated'
    <2>1. \A g \in Groups : \A t \in TokensOf(g) : t <= lastToken
      BY DEF Allocated, TokensOf
    <2>2. ASSUME NEW t \in pending' PROVE t <= lastToken'
      BY <1>0, <1>1, <2>1 DEF Allocated
    <2>3. ASSUME NEW v \in Workers, NEW t \in frame'[v].tokens
          PROVE  t <= lastToken'
      BY <1>0, <1>1 DEF Allocated, NewToken
    <2>4. ASSUME NEW g \in Groups, NEW i \in items'[g]
          PROVE  i <= lastToken' /\ native'[i] <= lastToken'
      <3>1. i \in Tokens /\ native'[i] \in Tokens \cup {0}
        BY <1>0
      <3>2. \A x \in Tokens \cup {0} : x \in Nat
        BY <1>0
      <3>3. i \in Nat /\ native'[i] \in Nat
        BY <3>1, <3>2
      <3>4. i <= lastToken'
        BY <1>1, <3>3 DEF Allocated, NewToken
      <3>5. native'[i] <= lastToken'
        BY <1>1, <3>3 DEF Allocated, NewToken
      <3> QED
        BY <3>4, <3>5
    <2>5. ASSUME NEW s \in Tokens PROVE route'[s] <= lastToken'
      <3>1. CASE route'[s] = NoItem
        BY <1>0, <3>1
      <3>2. CASE route'[s] # NoItem
        <4>1. route'[s] \in Tokens /\ route'[s] \in Nat
          BY <1>0, <3>2
        <4> QED
          BY <1>0, <1>1, <3>2, <4>1 DEF Allocated, NewToken
      <3> QED
        BY <3>1, <3>2
    <2>6. ASSUME NEW s \in Tokens, owner'[s] # NoGroup PROVE s <= lastToken'
      BY <1>0, <1>1, <2>6 DEF Allocated, NewToken
    <2> QED
      BY <2>2, <2>3, <2>4, <2>5, <2>6 DEF Allocated
  <1>3. Prospective'
    <2> SUFFICES ASSUME NEW v \in Workers, frame'[v].op = "RESUBSCRIBE"
                 PROVE  /\ frame'[v].group \in Groups
                        /\ \A t \in frame'[v].tokens :
                             /\ t \notin pending'
                             /\ \A s \in Tokens : route'[s] # t
                             /\ \A g \in Groups : \A i \in items'[g] :
                                  i # t /\ native'[i] # t
                             /\ \A u \in Workers \ {v} :
                                  t \notin frame'[u].tokens
      BY DEF Prospective
    <2>1. v # w /\ frame'[v] = frame[v] /\ frame[v].op = "RESUBSCRIBE"
      OBVIOUS
    <2>2. frame'[v].group \in Groups
      BY <2>1 DEF Prospective
    <2>3. ASSUME NEW t \in frame'[v].tokens
          PROVE  /\ t \notin pending'
                 /\ \A s \in Tokens : route'[s] # t
                 /\ \A g \in Groups : \A i \in items'[g] :
                      i # t /\ native'[i] # t
                 /\ \A u \in Workers \ {v} : t \notin frame'[u].tokens
      <3>1. t \in frame[v].tokens /\ t \in Nat /\ t <= lastToken
        BY <1>0, <2>1, <2>3 DEF Allocated
      <3>2. ~ NewToken(t)
        BY <1>0, <3>1 DEF NewToken
      <3>3. /\ t \notin pending
            /\ \A s \in Tokens : route[s] # t
            /\ \A g \in Groups : \A i \in items[g] : i # t /\ native[i] # t
            /\ \A u \in Workers \ {v} : t \notin frame[u].tokens
        BY <2>1, <3>1 DEF Prospective
      <3>4. t \notin frame[w].tokens
        BY <2>1, <3>3
      <3>5. t \notin pending'
        BY <3>3 DEF TokensOf
      <3>6. ASSUME NEW g \in Groups, NEW i \in items'[g]
            PROVE  i # t /\ native'[i] # t
        BY <3>2, <3>3, <3>4, <3>6
      <3>7. ASSUME NEW u \in Workers \ {v} PROVE t \notin frame'[u].tokens
        BY <3>2, <3>3, <3>7
      <3>8. ASSUME NEW s \in Tokens PROVE route'[s] # t
        <4>1. t # NoItem
          BY <1>0, <2>1, <2>3
        <4>2. \A g \in Groups : t \notin items[g]
          BY <3>3
        <4> QED
          BY <3>2, <3>3, <3>4, <3>8, <4>1, <4>2
      <3> QED
        BY <3>5, <3>6, <3>7, <3>8
    <2> QED
      BY <2>2, <2>3
  <1> QED
    BY <1>2, <1>3

\* New items for one group, in place of the ones it has: every other group
\* keeps its routes, the replaced ones lose theirs.
LEMMA NewItemsRouted ==
  ASSUME RoutingInv, TypeOK', NEW g \in Groups, NEW T \in SUBSET Tokens,
         NEW gen \in Nat,
         NewItems(g, T), RouteNew(T, TokensOf(g), gen),
         generation' = [generation EXCEPT ![g] = gen],
         \A t \in pending' : t \in pending \cup TokensOf(g),
         status'[g] # "UNMADE",
         \A h \in Groups \ {g} : status'[h] = status[h],
         \A t \in T : /\ t \notin pending
                      /\ \A s \in Tokens : route[s] # t
                      /\ \A h \in Groups : \A i \in items[h] :
                           i # t /\ native[i] # t
  PROVE  /\ Owned' /\ UnmadeEmpty'
         /\ RoutedTokensAreCurrent' /\ EventsOfCurrentGeneration'
         /\ PendingAreRetired'
  <1> USE DEF RoutingInv
  <1>0. NoItem \notin Tokens
    BY ConstantsAssumption DEF NoItem, Tokens
  <1>1. \A h \in Groups : items[h] \subseteq Tokens /\ items[h] \cap T = {}
    BY DEF TypeOK
  <1>2. /\ items'[g] = T
        /\ \A h \in Groups \ {g} : items'[h] = items[h]
        /\ \A i \in T : owner'[i] = g /\ native'[i] = i
        /\ \A i \in Tokens \ T : owner'[i] = owner[i] /\ native'[i] = native[i]
    BY DEF NewItems, TypeOK
  <1>3. Owned'
    BY <1>1, <1>2 DEF Owned
  <1>4. UnmadeEmpty'
    BY <1>2 DEF UnmadeEmpty
  <1>5. ASSUME NEW t \in Tokens, Located(t)'
        PROVE  /\ route'[t] \in items'[owner'[route'[t]]]
               /\ native'[route'[t]] = t
               /\ born'[t] = generation'[owner'[route'[t]]]
    <2>1. CASE t \in T
      <3>1. route'[t] = t /\ born'[t] = gen
        BY <2>1 DEF RouteNew
      <3> QED
        BY <1>2, <2>1, <3>1 DEF TypeOK
    <2>2. CASE t \notin T
      <3>1. /\ route'[t] = route[t] /\ born'[t] = born[t]
            /\ route[t] # NoItem /\ t \notin TokensOf(g)
        BY <1>5, <2>2 DEF RouteNew, Unrouted, Located
      <3>2. route[t] \in Tokens \ T
        BY <3>1 DEF TypeOK
      <3>3. owner'[route[t]] = owner[route[t]] /\ owner[route[t]] # NoGroup
        BY <1>2, <1>5, <3>1, <3>2 DEF Located
      <3>4. PICK h \in Groups : h = owner[route[t]]
        BY <3>2, <3>3 DEF TypeOK
      <3>5. /\ route[t] \in items[h] /\ native[route[t]] = t
            /\ born[t] = generation[h]
        BY <3>1, <3>4, <3>3 DEF Located, RoutedTokensAreCurrent,
                              EventsOfCurrentGeneration
      <3>6. h # g
        BY <3>1, <3>5 DEF TokensOf
      <3>7. route[t] \in Tokens \ T
        BY <1>1, <3>5
      <3>8. generation'[h] = generation[h]
        BY <3>6 DEF TypeOK
      <3> QED
        BY <1>2, <3>1, <3>4, <3>5, <3>6, <3>7, <3>8
    <2> QED
      BY <2>1, <2>2
  <1>6. ASSUME NEW t \in pending' PROVE route'[t] = NoItem
    <2>1. t \in Tokens /\ t \notin T
      BY <1>6 DEF TypeOK, TokensOf
    <2>2. t \in pending => route[t] = NoItem
      BY DEF PendingAreRetired
    <2> QED
      BY <2>1, <2>2 DEF RouteNew, Unrouted
  <1> QED
    BY <1>3, <1>4, <1>5, <1>6
    DEF RoutedTokensAreCurrent, EventsOfCurrentGeneration, PendingAreRetired

\* The items of the groups L get fresh tokens; the routes of their old tokens
\* go, and those of other groups stay, whatever was taken out before (rt).
LEMMA SwapRouted ==
  ASSUME RoutingInv, TypeOK',
         NEW L \in SUBSET Groups, NEW I \in SUBSET Tokens,
         \A i \in I : \E g \in L : i \in items[g],
         \A g \in L : items[g] \subseteq I,
         NEW fresh \in Renumberings(I), NEW routed \in BOOLEAN,
         NEW rt, \A t \in Tokens : rt[t] \in {NoItem, route[t]},
         SwapTokens(I, fresh, rt, routed),
         UNCHANGED <<items, owner, pending>>,
         generation' = [g \in Groups |-> IF g \in L THEN generation[g] + 1
                                                    ELSE generation[g]],
         \A g \in Groups : status'[g] = "UNMADE" => status[g] = "UNMADE"
  PROVE  /\ UnmadeEmpty'
         /\ RoutedTokensAreCurrent' /\ EventsOfCurrentGeneration'
         /\ PendingAreRetired'
  <1> USE DEF RoutingInv
  <1> DEFINE new == {fresh[i] : i \in I}
             item(t) == CHOOSE i \in I : fresh[i] = t
  <1>0. /\ lastToken \in Nat /\ Cardinality(I) \in Nat /\ NoItem \notin Tokens
        /\ Tokens \subseteq Nat
    <2>1. lastToken \in Nat
      BY ConstantsAssumption DEF TypeOK
    <2>2. Cardinality(I) \in Nat
      BY ItemSetsFinite
    <2>3. NoItem \notin Tokens /\ Tokens \subseteq Nat
      BY ConstantsAssumption DEF NoItem, Tokens
    <2> QED
      BY <2>1, <2>2, <2>3
  <1>1. UnmadeEmpty'
    BY DEF UnmadeEmpty
  <1>2. \A i \in I : fresh[i] \in Nat /\ lastToken < fresh[i]
    BY <1>0, RenumberingsFresh
  <1>3. \A t \in new : item(t) \in I /\ fresh[item(t)] = t
    OBVIOUS
  <1>4. \A i \in Tokens : native'[i] = IF i \in I THEN fresh[i] ELSE native[i]
    BY DEF SwapTokens
  <1>5. ASSUME NEW t \in Tokens, Located(t)'
        PROVE  /\ route'[t] \in items'[owner'[route'[t]]]
               /\ native'[route'[t]] = t
               /\ born'[t] = generation'[owner'[route'[t]]]
    <2>1. CASE routed /\ t \in new
      <3>1. route'[t] = item(t) /\ born'[t] = generation[owner[item(t)]] + 1
        BY <2>1 DEF SwapTokens
      <3>2. item(t) \in I /\ fresh[item(t)] = t
        BY <1>3, <2>1
      <3>3. PICK g \in L : item(t) \in items[g]
        BY <3>2
      <3>4. owner[item(t)] = g
        BY <3>3 DEF Owned
      <3>5. native'[item(t)] = t
        BY <1>4, <3>2
      <3>6. generation'[g] = generation[g] + 1
        OBVIOUS
      <3> HIDE DEF item, new
      <3> QED
        BY <3>1, <3>3, <3>4, <3>5, <3>6
    <2>2. CASE ~(routed /\ t \in new)
      <3>1. route'[t] = IF t \in Retired(I) THEN NoItem ELSE rt[t]
        BY <2>2 DEF SwapTokens
      <3>2. /\ route'[t] = route[t] /\ route[t] # NoItem
            /\ t \notin Retired(I) /\ owner[route[t]] # NoGroup
        BY <1>5, <3>1 DEF Located
      <3>3. born'[t] = born[t]
        BY <2>2 DEF SwapTokens
      <3>4. PICK h \in Groups : h = owner[route[t]]
        BY <3>2 DEF TypeOK
      <3>5. /\ route[t] \in items[h] /\ native[route[t]] = t
            /\ born[t] = generation[h]
        BY <3>2, <3>4 DEF Located, RoutedTokensAreCurrent,
                              EventsOfCurrentGeneration
      <3>6. route[t] \notin I /\ route[t] \in Tokens
        BY <3>2, <3>5 DEF Retired, TypeOK
      <3>7. h \notin L
        BY <3>5, <3>6
      <3>8. native'[route[t]] = t /\ generation'[h] = generation[h]
        BY <1>4, <3>5, <3>6, <3>7
      <3> QED
        BY <3>2, <3>3, <3>4, <3>5, <3>8
    <2> QED
      BY <2>1, <2>2
  <1>6. ASSUME NEW t \in pending' PROVE route'[t] = NoItem
    <2>1. t \in Tokens /\ t <= lastToken /\ route[t] = NoItem
      BY DEF TypeOK, Allocated, PendingAreRetired
    <2>2. t \notin new
      BY <1>0, <1>2, <2>1
    <2>3. rt[t] = NoItem
      BY <2>1
    <2> QED
      BY <2>1, <2>2, <2>3 DEF SwapTokens
  <1> QED
    BY <1>1, <1>5, <1>6
    DEF RoutedTokensAreCurrent, EventsOfCurrentGeneration, PendingAreRetired

LEMMA CreateKeeps ==
  ASSUME RoutingInv, TypeOK', NEW w \in Callers, NEW g \in Groups,
         NEW n \in ItemCounts, CreateBegins(w, g, n)
  PROVE  RoutingInv'
  <1> USE DEF RoutingInv
  <1>0. w \in Workers /\ lastToken \in Nat /\ n \in Nat
    BY ConstantsAssumption DEF Workers, TypeOK
  <1>1. CASE session # "CONNECTED"
    <2>1. /\ UNCHANGED <<items, owner, native, generation, born, route, pending,
                         status, frame>>
          /\ lastToken' = lastToken + n
      BY <1>1 DEF CreateBegins, itemVars, routeVars
    <2>2. \A v \in Workers : HarmlessFrame(v)
      BY <2>1, SameHarmless
    <2>3. HarmlessStep
      BY <1>0, <2>1, <2>2 DEF HarmlessStep
    <2> QED
      BY <2>3, HarmlessKeeps
  <1>2. CASE session = "CONNECTED"
    <2> DEFINE T == Fresh(n)
    <2>1. /\ status[g] = "UNMADE" /\ lastToken + n <= MaxToken
          /\ lastToken' = lastToken + n
          /\ status' = [status EXCEPT ![g] = "STARTING"]
          /\ generation' = [generation EXCEPT ![g] = 1]
          /\ NewItems(g, T) /\ RouteNew(T, {}, 1) /\ pending' = pending
          /\ frame' = [frame EXCEPT ![w] = Calling("CREATE", g, T, T, {})]
      BY <1>2 DEF CreateBegins
    <2>2. T \in SUBSET Tokens /\ \A t \in T : t \in Nat /\ NewToken(t)
      BY <1>0, <2>1, FreshTyped DEF NewToken, Fresh
    <2>3. items[g] = {} /\ TokensOf(g) = {}
      BY <2>1 DEF UnmadeEmpty, TokensOf
    <2>4. \A t \in T : /\ t \notin pending
                       /\ \A s \in Tokens : route[s] # t
                       /\ \A h \in Groups : \A i \in items[h] :
                            i # t /\ native[i] # t
      BY <1>0, <2>2 DEF Allocated, NewToken
    <2> HIDE DEF T
    <2>5. /\ status'[g] # "UNMADE"
          /\ \A h \in Groups \ {g} : status'[h] = status[h]
      BY <2>1 DEF TypeOK
    <2>6. /\ Owned' /\ UnmadeEmpty'
          /\ RoutedTokensAreCurrent' /\ EventsOfCurrentGeneration'
          /\ PendingAreRetired'
      <3>1. PICK gen \in Nat : gen = 1
        OBVIOUS
      <3>2. /\ RouteNew(T, TokensOf(g), gen) /\ NewItems(g, T)
            /\ generation' = [generation EXCEPT ![g] = gen]
        BY <2>1, <2>3, <3>1
      <3> QED
        BY <2>1, <2>2, <2>4, <2>5, <3>2, NewItemsRouted
    <2>7. /\ frame'[w] = Calling("CREATE", g, T, T, {})
          /\ \A v \in Workers \ {w} : frame'[v] = frame[v]
      BY <1>0, <2>1 DEF TypeOK
    <2>8. frame'[w].op # "RESUBSCRIBE" /\ frame'[w].tokens = T
      BY <2>7 DEF Calling, Frame
    <2>9. \A h \in Groups : \A i \in items'[h] :
            \/ NewToken(i) /\ NewToken(native'[i])
            \/ i \in items[h] /\ native'[i] = native[i]
      BY <2>1, <2>2, <2>4 DEF NewItems, TypeOK
    <2>10. lastToken <= lastToken'
      BY <1>0, <2>1
    <2>11. \A s \in Tokens : \/ route'[s] \in {NoItem, route[s]}
                             \/ NewToken(route'[s])
      BY <2>1, <2>2 DEF RouteNew, Unrouted
    <2>12. \A s \in Tokens : owner'[s] = owner[s] \/ NewToken(s)
      BY <2>1, <2>2 DEF NewItems
    <2>13. Allocated' /\ Prospective'
      BY <1>0, <2>1, <2>2, <2>7, <2>8, <2>9, <2>10, <2>11, <2>12,
         OthersKeepTheirTokens
    <2> QED
      BY <2>6, <2>13
  <1> QED
    BY <1>1, <1>2

LEMMA CreateInvalidKeeps ==
  ASSUME RoutingInv, TypeOK', NEW w \in Callers, NEW n \in ItemCounts,
         CreateInvalid(w, n)
  PROVE  RoutingInv'
  <1> USE DEF RoutingInv
  <1>0. w \in Workers /\ lastToken \in Nat /\ n \in Nat
    BY ConstantsAssumption DEF Workers, TypeOK
  <1> DEFINE T == Fresh(n)
  <1>1. /\ UNCHANGED <<items, owner, native, generation, born, pending, status,
                       frame>>
        /\ lastToken' = lastToken + n /\ lastToken + n <= MaxToken
        /\ route' = [t \in Tokens |-> IF t \in T THEN t ELSE route[t]]
    BY DEF CreateInvalid, groupVars, itemVars
  <1>2. T \in SUBSET Tokens /\ \A t \in T : t \in Nat /\ NewToken(t)
    BY <1>0, <1>1, FreshTyped DEF NewToken, Fresh
  <1> HIDE DEF T
  <1>3. \A t \in T : /\ t \notin pending
                     /\ \A h \in Groups : t \notin items[h]
                     /\ \A v \in Workers : t \notin frame[v].tokens
    BY <1>0, <1>2 DEF Allocated, NewToken
  <1>4. \A t \in Nat : t <= lastToken => t <= lastToken'
    BY <1>0, <1>1
  <1>5. /\ Tokens \subseteq Nat /\ NoItem \in Nat
        /\ route \in [Tokens -> Tokens \cup {NoItem}]
    BY DEF Tokens, NoItem, TypeOK
  <1>6. \A t \in Tokens : route[t] \in Nat
    BY <1>5
  <1>7. /\ \A v \in Workers : frame[v].tokens \subseteq Nat
        /\ pending \subseteq Nat
        /\ \A h \in Groups : \A i \in items[h] : i \in Nat /\ native[i] \in Nat
    BY <1>5 DEF TypeOK, FrameType, Owned
  <1>8. Allocated'
    <2>1. \A t \in Tokens : route'[t] <= lastToken'
      BY <1>1, <1>2, <1>4, <1>6 DEF Allocated, NewToken
    <2>2. \A t \in Tokens : owner[t] # NoGroup => t <= lastToken'
      BY <1>4, <1>5 DEF Allocated
    <2> QED
      BY <1>1, <1>4, <1>7, <2>1, <2>2 DEF Allocated
  <1>9. Prospective'
    <2>1. \A v \in Workers : \A t \in frame[v].tokens : \A s \in Tokens :
            route[s] # t => route'[s] # t
      BY <1>1, <1>3
    <2> QED
      BY <1>1, <2>1 DEF Prospective
  \* What is found for a token is what was found before.
  <1>10. \A t \in Tokens : Located(t)' => Located(t) /\ route'[t] = route[t]
    <2>1. \A t \in T : owner[t] = NoGroup
      BY <1>0, <1>2 DEF Allocated, NewToken
    <2> QED
      BY <1>1, <2>1 DEF Located
  <1>11. PendingAreRetired'
    BY <1>1, <1>3 DEF PendingAreRetired, TypeOK
  <1> QED
    BY <1>1, <1>8, <1>9, <1>10, <1>11
    DEF Owned, UnmadeEmpty, RoutedTokensAreCurrent, EventsOfCurrentGeneration

LEMMA ResubscribeBeginsKeeps ==
  ASSUME RoutingInv, TypeOK', NEW w \in Callers, NEW g \in Groups,
         NEW n \in ItemCounts, ResubscribeBegins(w, g, n)
  PROVE  RoutingInv'
  <1> USE DEF RoutingInv
  <1>0. w \in Workers /\ lastToken \in Nat /\ n \in Nat
    BY ConstantsAssumption DEF Workers, TypeOK
  <1>1. /\ UNCHANGED <<items, owner, native, generation, born, route, pending,
                       status>>
        /\ lastToken' = lastToken + n /\ lastToken + n <= MaxToken
    BY DEF ResubscribeBegins, groupVars, itemVars, routeVars
  <1>2. CASE UNCHANGED frame
    <2>1. \A v \in Workers : HarmlessFrame(v)
      BY <1>2, SameHarmless
    <2>2. HarmlessStep
      BY <1>0, <1>1, <2>1 DEF HarmlessStep
    <2> QED
      BY <2>2, HarmlessKeeps
  <1>3. CASE frame' = [frame EXCEPT
               ![w] = Calling("RESUBSCRIBE", g, Fresh(n), Fresh(n), {})]
    <2> DEFINE T == Fresh(n)
    <2>1. frame' = [frame EXCEPT ![w] = Calling("RESUBSCRIBE", g, T, T, {})]
      BY <1>3
    <2>2. T \in SUBSET Tokens
          /\ \A t \in T : t \in Nat /\ lastToken < t /\ t <= lastToken'
      BY <1>0, <1>1, FreshTyped DEF Fresh
    <2> HIDE DEF T
    <2>3. /\ frame'[w] = Calling("RESUBSCRIBE", g, T, T, {})
          /\ \A v \in Workers \ {w} : frame'[v] = frame[v]
      BY <1>0, <2>1 DEF TypeOK
    <2>4. frame'[w].group = g /\ frame'[w].tokens = T
      BY <2>3 DEF Calling, Frame
    <2>5. \A t \in Nat : t <= lastToken => t <= lastToken' /\ t \notin T
      BY <1>0, <1>1, <2>2
    <2>6. /\ \A v \in Workers : frame[v].tokens \subseteq Nat
          /\ pending \subseteq Nat
          /\ \A h \in Groups : \A i \in items[h] :
               i \in Nat /\ native[i] \in Nat
          /\ \A s \in Tokens : s \in Nat /\ route[s] \in Nat
      <3>1. Tokens \subseteq Nat /\ \A t \in Tokens \cup {NoItem} : t \in Nat
        BY DEF Tokens, NoItem
      <3> QED
        BY <3>1 DEF TypeOK, FrameType, Owned
    <2>7. Allocated'
      <3>1. \A v \in Workers : \A t \in frame'[v].tokens : t <= lastToken'
        BY <2>2, <2>3, <2>4, <2>5, <2>6 DEF Allocated
      <3> QED
        BY <1>1, <2>5, <2>6, <3>1 DEF Allocated
    <2>8. Prospective'
      <3>1. \A t \in T : /\ t \notin pending
                         /\ \A s \in Tokens : route[s] # t
                         /\ \A h \in Groups : \A i \in items[h] :
                              i # t /\ native[i] # t
                         /\ \A v \in Workers : t \notin frame[v].tokens
        BY <2>5, <2>6 DEF Allocated
      <3>2. ASSUME NEW v \in Workers, frame'[v].op = "RESUBSCRIBE"
            PROVE  /\ frame'[v].group \in Groups
                   /\ \A t \in frame'[v].tokens :
                        /\ t \notin pending
                        /\ \A s \in Tokens : route[s] # t
                        /\ \A h \in Groups : \A i \in items[h] :
                             i # t /\ native[i] # t
                        /\ \A u \in Workers \ {v} : t \notin frame'[u].tokens
        <4>1. CASE v = w
          BY <2>3, <2>4, <3>1, <4>1
        <4>2. CASE v # w
          <5>1. frame'[v] = frame[v]
            BY <2>3, <4>2
          <5>2. \A t \in frame[v].tokens : t \notin T
            BY <3>1
          <5> QED
            BY <2>3, <2>4, <3>2, <5>1, <5>2 DEF Prospective
        <4> QED
          BY <4>1, <4>2
      <3> QED
        BY <1>1, <3>2 DEF Prospective
    <2>9. /\ Owned' /\ UnmadeEmpty'
          /\ RoutedTokensAreCurrent' /\ EventsOfCurrentGeneration'
          /\ PendingAreRetired'
      BY <1>1 DEF Owned, UnmadeEmpty, Located, RoutedTokensAreCurrent,
                  EventsOfCurrentGeneration, PendingAreRetired
    <2> QED
      BY <2>7, <2>8, <2>9
  <1> QED
    BY <1>2, <1>3 DEF ResubscribeBegins

LEMMA ResubscribeCommitsKeeps ==
  ASSUME RoutingInv, TypeOK', NEW w \in Callers, ResubscribeCommits(w)
  PROVE  RoutingInv'
  <1> USE DEF RoutingInv
  <1> DEFINE g == frame[w].group
             T == frame[w].tokens
  <1>0. w \in Workers /\ lastToken \in Nat
    BY ConstantsAssumption DEF Workers, TypeOK
  <1>1. /\ frame[w].op = "RESUBSCRIBE"
        /\ generation' = [generation EXCEPT ![g] = @ + 1]
        /\ status' = [status EXCEPT ![g] = "STARTING"]
        /\ NewItems(g, T) /\ RouteNew(T, TokensOf(g), generation[g] + 1)
        /\ pending' = pending \cup TokensOf(g)
        /\ frame' = [frame EXCEPT ![w] = Idle]
        /\ lastToken' = lastToken
    BY DEF ResubscribeCommits, Returned
  <1>2. g \in Groups /\ T \in SUBSET Tokens
    BY <1>0, <1>1 DEF Prospective, TypeOK, FrameType
  <1>3. \A t \in T : /\ t \notin pending
                     /\ \A s \in Tokens : route[s] # t
                     /\ \A h \in Groups : \A i \in items[h] :
                          i # t /\ native[i] # t
    BY <1>0, <1>1 DEF Prospective
  <1> HIDE DEF g, T
  <1>4. /\ status'[g] # "UNMADE"
        /\ \A h \in Groups \ {g} : status'[h] = status[h]
        /\ generation[g] + 1 \in Nat
        /\ generation' = [generation EXCEPT ![g] = generation[g] + 1]
    BY <1>1, <1>2 DEF TypeOK
  <1>5. /\ Owned' /\ UnmadeEmpty'
        /\ RoutedTokensAreCurrent' /\ EventsOfCurrentGeneration'
        /\ PendingAreRetired'
    BY <1>1, <1>2, <1>3, <1>4, NewItemsRouted
  <1>6. /\ frame'[w].op # "RESUBSCRIBE" /\ frame'[w].tokens = {}
        /\ \A v \in Workers \ {w} : frame'[v] = frame[v]
    BY <1>0, <1>1 DEF TypeOK, Idle, Frame
  <1>7. \A h \in Groups : \A i \in items'[h] :
          \/ i \in T /\ native'[i] \in T
          \/ i \in items[h] /\ native'[i] = native[i]
    BY <1>1, <1>2, <1>3 DEF NewItems, TypeOK
  <1>8. \A s \in Tokens : route'[s] \in {NoItem, route[s]} \cup T
    BY <1>1 DEF RouteNew, Unrouted
  <1>9. \A s \in Tokens : owner'[s] = owner[s] \/ s \in T
    BY <1>1 DEF NewItems
  <1>10. Allocated' /\ Prospective'
    BY <1>0, <1>1, <1>2, <1>6, <1>7, <1>8, <1>9, OthersKeepTheirTokens DEF T
  <1> QED
    BY <1>5, <1>10

LEMMA RestoreKeeps ==
  ASSUME RoutingInv, TypeOK', Owned', NEW w \in Restorers,
         NEW st \in [Groups -> GroupStatuses], NEW rt,
         \A g \in Groups : st[g] = "UNMADE" => status[g] = "UNMADE",
         \A t \in Tokens : rt[t] \in {NoItem, route[t]},
         NEW todo \in SUBSET Groups, RestoreGoesOn(w, st, rt, todo)
  PROVE  RoutingInv'
  <1> USE DEF RoutingInv
  <1> DEFINE live == {g \in todo : st[g] \in ActiveStatuses}
  <1>0. w \in Workers /\ lastToken \in Nat
    BY ConstantsAssumption DEF Workers, TypeOK
  <1>1. UNCHANGED <<items, owner, pending>>
    BY DEF RestoreGoesOn
  <1>2. CASE /\ status' = st /\ route' = rt
             /\ frame' = [frame EXCEPT ![w] = Idle]
             /\ UNCHANGED <<generation, native, born, lastToken>>
    <2>1. \A v \in Workers : HarmlessFrame(v)
      BY <1>2, IdleHarmless, SameHarmless DEF TypeOK
    <2>2. HarmlessStep
      BY <1>0, <1>1, <1>2, <2>1 DEF HarmlessStep
    <2> QED
      BY <2>2, HarmlessKeeps
  \* The items I of the groups L are given new tokens, and w then waits with
  \* new tokens or with none.
  <1>3. ASSUME NEW L \in SUBSET Groups, NEW I \in SUBSET Tokens,
               \A i \in I : \E g \in L : i \in items[g],
               \A g \in L : items[g] \subseteq I,
               NEW fresh \in Renumberings(I), NEW routed \in BOOLEAN,
               SwapTokens(I, fresh, rt, routed),
               generation' = [g \in Groups |->
                                IF g \in L THEN generation[g] + 1
                                           ELSE generation[g]],
               \A g \in Groups : status'[g] = "UNMADE" => status[g] = "UNMADE",
               \A v \in Workers \ {w} : frame'[v] = frame[v],
               frame'[w].op # "RESUBSCRIBE",
               frame'[w].tokens \subseteq {fresh[i] : i \in I}
        PROVE  RoutingInv'
    <2>1. /\ UnmadeEmpty'
          /\ RoutedTokensAreCurrent' /\ EventsOfCurrentGeneration'
          /\ PendingAreRetired'
      BY <1>1, <1>3, SwapRouted
    <2>2. lastToken' = lastToken + Cardinality(I) /\ Cardinality(I) \in Nat
      BY <1>3, ItemSetsFinite DEF SwapTokens
    <2>3. \A i \in I : NewToken(fresh[i])
      BY <1>0, <1>3, <2>2, RenumberingsFresh DEF NewToken
    <2>4. \A i \in Tokens : native'[i] = IF i \in I THEN fresh[i] ELSE native[i]
      BY <1>3 DEF SwapTokens
    <2>5. \A g \in Groups : \A i \in items'[g] :
            /\ i \in items[g]
            /\ native'[i] = native[i] \/ NewToken(native'[i])
      BY <1>1, <2>3, <2>4 DEF TypeOK
    <2>6. \A t \in frame'[w].tokens : NewToken(t)
      BY <1>3, <2>3
    <2>7. lastToken <= lastToken'
      BY <1>0, <2>2
    <2>8. ASSUME NEW s \in Tokens
          PROVE  \/ route'[s] \in {NoItem, route[s]}
                 \/ \E g \in Groups : route'[s] \in items[g]
      <3>1. CASE routed /\ s \in {fresh[i] : i \in I}
        <4>1. route'[s] = CHOOSE i \in I : fresh[i] = s
          BY <1>3, <3>1 DEF SwapTokens
        <4>2. route'[s] \in I
          BY <3>1, <4>1
        <4> QED
          BY <1>3, <4>2
      <3>2. CASE ~(routed /\ s \in {fresh[i] : i \in I})
        BY <1>3, <3>2 DEF SwapTokens
      <3> QED
        BY <3>1, <3>2
    <2>9. Allocated' /\ Prospective'
      BY <1>0, <1>1, <1>3, <2>5, <2>6, <2>7, <2>8, OthersKeepTheirTokens
    <2> QED
      BY <2>1, <2>9
  <1>4. ASSUME NEW g \in live, NEW fresh \in Renumberings(items[g]),
               status' = [st EXCEPT ![g] = "STARTING"],
               generation' = [generation EXCEPT ![g] = @ + 1],
               SwapTokens(items[g], fresh, rt, TRUE),
               frame' = [frame EXCEPT ![w] =
                 Calling("RESTORE", g, {fresh[i] : i \in items[g]},
                         {fresh[i] : i \in items[g]}, todo \ {g})]
        PROVE  RoutingInv'
    <2>1. {g} \in SUBSET Groups /\ items[g] \in SUBSET Tokens
      BY <1>4 DEF TypeOK
    <2>2. generation' = [h \in Groups |-> IF h \in {g} THEN generation[h] + 1
                                                       ELSE generation[h]]
      BY <1>4, <2>1 DEF TypeOK
    <2>3. \A h \in Groups : status'[h] = "UNMADE" => status[h] = "UNMADE"
      BY <1>4, <2>1
    <2>4. /\ \A v \in Workers \ {w} : frame'[v] = frame[v]
          /\ frame'[w] = Calling("RESTORE", g, {fresh[i] : i \in items[g]},
                           {fresh[i] : i \in items[g]}, todo \ {g})
      BY <1>0, <1>4 DEF TypeOK
    <2>5. /\ frame'[w].op # "RESUBSCRIBE"
          /\ frame'[w].tokens = {fresh[i] : i \in items[g]}
      BY <2>4 DEF Calling, Frame
    <2>6. /\ \A i \in items[g] : \E h \in {g} : i \in items[h]
          /\ \A h \in {g} : items[h] \subseteq items[g]
      OBVIOUS
    <2> QED
      BY <1>3, <1>4, <2>1, <2>2, <2>3, <2>4, <2>5, <2>6
  <1>5. ASSUME NEW fresh \in Renumberings(UNION {items[g] : g \in live}),
               status' = [g \in Groups |-> IF g \in live THEN "FAILED"
                                                         ELSE st[g]],
               generation' = [g \in Groups |-> IF g \in live
                                               THEN generation[g] + 1
                                               ELSE generation[g]],
               SwapTokens(UNION {items[g] : g \in live}, fresh, rt, FALSE),
               frame' = [frame EXCEPT ![w] = Idle]
        PROVE  RoutingInv'
    <2> DEFINE I == UNION {items[g] : g \in live}
    <2>1. live \in SUBSET Groups /\ I \in SUBSET Tokens
      BY DEF TypeOK
    <2>2. /\ \A i \in I : \E g \in live : i \in items[g]
          /\ \A g \in live : items[g] \subseteq I
      OBVIOUS
    <2>3. \A h \in Groups : status'[h] = "UNMADE" => status[h] = "UNMADE"
      BY <1>5
    <2>4. /\ \A v \in Workers \ {w} : frame'[v] = frame[v]
          /\ frame'[w] = Idle
      BY <1>0, <1>5 DEF TypeOK
    <2>5. frame'[w].op # "RESUBSCRIBE" /\ frame'[w].tokens = {}
      BY <2>4 DEF Idle, Frame
    <2>6. FALSE \in BOOLEAN
      OBVIOUS
    <2> HIDE DEF live
    <2> QED
      BY <1>3, <1>5, <2>1, <2>2, <2>3, <2>4, <2>5, <2>6
  <1> QED
    BY <1>2, <1>4, <1>5 DEF RestoreGoesOn

LEMMA NextRouting == RoutingInv /\ [Next]_vars => RoutingInv'
  <1> SUFFICES ASSUME RoutingInv, [Next]_vars PROVE RoutingInv'
    OBVIOUS
  <1>0. TypeOK /\ Owned /\ Prospective /\ Restorers \subseteq Workers
    BY DEF RoutingInv, Workers
  <1>1. TypeOK'
    BY <1>0, NextTypeOK
  <1>2. ASSUME HarmlessStep PROVE RoutingInv'
    BY <1>1, <1>2, HarmlessKeeps
  <1>3. ASSUME NEW w \in Callers, Client(w) PROVE RoutingInv'
    BY <1>0, <1>1, <1>2, <1>3, HarmlessActions, CreateKeeps,
       CreateInvalidKeeps, ResubscribeBeginsKeeps
    DEF Client
  <1>4. ASSUME NEW w \in Callers, Resume(w) PROVE RoutingInv'
    BY <1>0, <1>1, <1>2, <1>4, HarmlessActions, ResubscribeCommitsKeeps
    DEF Resume
  <1>5. ASSUME NEW w \in Restorers, NEW st \in [Groups -> GroupStatuses],
               NEW rt \in [Tokens -> Tokens \cup {NoItem}],
               \A g \in Groups : st[g] = "UNMADE" => status[g] = "UNMADE",
               \A t \in Tokens : rt[t] \in {NoItem, route[t]},
               NEW todo \in SUBSET Groups, RestoreGoesOn(w, st, rt, todo)
        PROVE  RoutingInv'
    <2>1. Owned'
      BY <1>0, <1>5, RestoreTyped
    <2> QED
      BY <1>1, <1>5, <2>1, RestoreKeeps
  <1>6. ASSUME NEW w \in Restorers, RestoreBegins(w) PROVE RoutingInv'
    <2>1. CASE session = "CONNECTED"
      BY <1>0, <1>5, <1>6, <2>1 DEF RestoreBegins, TypeOK
    <2>2. CASE session # "CONNECTED"
      <3>1. /\ UNCHANGED <<items, owner, native, generation, born, route,
                           pending, lastToken, status>>
            /\ frame' = [frame EXCEPT ![w] = Idle]
        BY <1>6, <2>2 DEF RestoreBegins, groupVars, itemVars, routeVars
      <3>2. \A v \in Workers : HarmlessFrame(v)
        BY <1>0, <3>1, IdleHarmless, SameHarmless DEF TypeOK
      <3>3. lastToken \in Nat
        BY <1>0, ConstantsAssumption DEF TypeOK
      <3>4. HarmlessStep
        BY <3>1, <3>2, <3>3 DEF HarmlessStep
      <3> QED
        BY <1>2, <3>4
    <2> QED
      BY <2>1, <2>2
  <1>7. ASSUME NEW w \in Restorers, RestoreReturns(w) PROVE RoutingInv'
    <2>1. frame[w].todo \in SUBSET Groups /\ frame[w].tokens \in SUBSET Tokens
      BY <1>0 DEF TypeOK, FrameType
    <2>2. CASE frame[w].stage = "OK"
      BY <1>0, <1>5, <1>7, <2>1, <2>2 DEF RestoreReturns, TypeOK
    <2>3. CASE frame[w].stage # "OK"
      <3> DEFINE st == [status EXCEPT ![frame[w].group] = "FAILED"]
                 rt == Unrouted(frame[w].tokens)
      <3>1. /\ st \in [Groups -> GroupStatuses]
            /\ \A g \in Groups : st[g] = "UNMADE" => status[g] = "UNMADE"
        BY <1>0 DEF TypeOK, GroupStatuses
      <3>2. /\ rt \in [Tokens -> Tokens \cup {NoItem}]
            /\ \A t \in Tokens : rt[t] \in {NoItem, route[t]}
        BY <1>0 DEF TypeOK, Unrouted
      <3>3. RestoreGoesOn(w, st, rt, frame[w].todo)
        BY <1>7, <2>3 DEF RestoreReturns
      <3> HIDE DEF st, rt
      <3> QED
        BY <1>5, <2>1, <3>1, <3>2, <3>3
    <2> QED
      BY <2>2, <2>3
  <1> QED
    BY <1>0, <1>2, <1>3, <1>4, <1>6, <1>7, HarmlessActions DEF Next, Restore

LEMMA RoutingInvariant == Spec => []RoutingInv
  BY InitRouting, NextRouting, PTL DEF Spec

-----------------------------------------------------------------------------
(* The theorems about routing.                                             *)

\* Every reachable state of the registry, its routes, the native feeds and the
\* suspended coroutines is well typed.
THEOREM GroupsTypeCorrect == Spec => []TypeOK
  <1>1. RoutingInv => TypeOK
    BY DEF RoutingInv
  <1> QED
    BY <1>1, RoutingInvariant, PTL

\* handle_event finds the item of a token only while the item is in its group
\* and has that token, whatever create, resubscribe, cancel, expiry and
\* restores did to the group before.
THEOREM RoutingSafe == Spec => []RoutedTokensAreCurrent
  <1>1. RoutingInv => RoutedTokensAreCurrent
    BY DEF RoutingInv
  <1> QED
    BY <1>1, RoutingInvariant, PTL

\* What handle_event takes for an event of a group was subscribed to for the
\* generation the group has.
THEOREM GenerationsSafe == Spec => []EventsOfCurrentGeneration
  <1>1. RoutingInv => EventsOfCurrentGeneration
    BY DEF RoutingInv
  <1> QED
    BY <1>1, RoutingInvariant, PTL

\* What retry_pending_unsubscribes unsubscribes feeds no item.
THEOREM PendingSafe == Spec => []PendingAreRetired
  <1>1. RoutingInv => PendingAreRetired
    BY DEF RoutingInv
  <1> QED
    BY <1>1, RoutingInvariant, PTL

-----------------------------------------------------------------------------
(* One life.  Where no client resubscribes and the session is not lost, a  *)
(* group is given its items once.  What a coroutine read before its native *)
(* call is then still right after it, and what has ended or failed does    *)
(* not come back.                                                          *)

OneLife == "RESUBSCRIBE" \notin Operations /\ "RECONNECT" \notin Operations

\* No coroutine is in a step that replaces items or tokens.
NothingReplaced ==
  /\ session = "CONNECTED"
  /\ \A w \in Workers :
       frame[w].op \notin {"RESUBSCRIBE", "ROLLBACK", "RESTORE", "RESTORE_DUE"}

\* An item keeps its first token, and only this one leads to it.
OwnTokens ==
  /\ \A g \in Groups : \A i \in items[g] : native[i] = i
  /\ \A t \in Tokens : route[t] \in {NoItem, t}

\* A coroutine that will end a group, or undo its creation, holds the tokens of
\* the items the group has now.
HeldItems ==
  \A w \in Workers : frame[w].op \in {"CREATE", "CANCEL", "EXPIRE"} =>
    /\ frame[w].group \in Groups
    /\ status[frame[w].group] # "UNMADE"
    /\ frame[w].tokens = items[frame[w].group]

RegisteredMade == \A g \in registered : status[g] # "UNMADE"

EndedUnrouted ==
  \A g \in Groups : status[g] \in EndedStatuses =>
    \A i \in items[g] : route[i] = NoItem

\* A group is FAILED only after Bloomberg ended each of its feeds: no event is
\* left that could make it active.
FailedForGood ==
  \A g \in Groups :
    /\ \A i \in items[g] : itemStatus[i] = "FAILED" => heard[i] = "ENDED"
    /\ status[g] = "FAILED" => \A i \in items[g] : heard[i] = "ENDED"

LifeInv ==
  /\ NothingReplaced
  /\ OwnTokens
  /\ HeldItems
  /\ RegisteredMade
  /\ EndedUnrouted
  /\ FailedForGood
  /\ LimitHolds

ActiveGroups == {g \in registered : Active(g)}

LEMMA InitLife == Init => LifeInv
  <1> SUFFICES ASSUME Init PROVE LifeInv
    OBVIOUS
  <1>1. LimitHolds
    <2>1. {g \in registered : Active(g)} = {}
      BY DEF Init
    <2> QED
      BY <2>1, FS_EmptySet, ConstantsAssumption DEF LimitHolds
  <1>2. EndedUnrouted /\ FailedForGood /\ RegisteredMade
    BY DEF Init, EndedUnrouted, FailedForGood, RegisteredMade
  <1>3. NothingReplaced /\ HeldItems
    BY DEF Init, NothingReplaced, HeldItems, Idle, Frame
  <1> QED
    BY <1>1, <1>2, <1>3 DEF Init, LifeInv, OwnTokens

\* The number of active groups does not grow when none becomes active.
LEMMA LimitKept ==
  ASSUME TypeOK, LimitHolds, ActiveGroups' \subseteq ActiveGroups
  PROVE  LimitHolds'
  <1>1. IsFiniteSet(ActiveGroups)
    <2>1. ActiveGroups \subseteq Groups
      BY DEF ActiveGroups, TypeOK
    <2> QED
      BY <2>1, ConstantsAssumption, FS_Subset
  <1>2. /\ IsFiniteSet(ActiveGroups')
        /\ Cardinality(ActiveGroups') <= Cardinality(ActiveGroups)
    BY <1>1, FS_Subset
  <1>3. Cardinality(ActiveGroups) \in Nat /\ Cardinality(ActiveGroups') \in Nat
    BY <1>1, <1>2, FS_CardinalityType
  <1>4. Cardinality(ActiveGroups) <= MaxPerPrincipal
    BY DEF LimitHolds, ActiveGroups
  <1>5. Cardinality(ActiveGroups') <= MaxPerPrincipal
    BY <1>2, <1>3, <1>4, ConstantsAssumption
  <1> QED
    BY <1>5 DEF LimitHolds, ActiveGroups

\* What a step may leave in the frame of a coroutine: what was there, nothing
\* that could end a group, or the items a group has.
LifeFrame(w) ==
  \/ /\ frame'[w].op = frame[w].op
     /\ frame'[w].group = frame[w].group
     /\ frame'[w].tokens = frame[w].tokens
  \/ frame'[w].op \in {"IDLE", "RETRY"} \cup AbandonedOps
  \/ /\ frame'[w].op \in {"CANCEL", "EXPIRE"}
     /\ frame'[w].group \in Groups
     /\ status[frame'[w].group] # "UNMADE"
     /\ frame'[w].tokens = items[frame'[w].group]

\* A step that gives no group items and handles no event.
LifeStep ==
  /\ UNCHANGED <<session, items, native, heard>>
  /\ registered' \subseteq registered
  /\ \A t \in Tokens : \/ route'[t] \in {NoItem, route[t]}
                       \/ route'[t] = t /\ \A g \in Groups : t \notin items[g]
  /\ \A w \in Workers : LifeFrame(w)
  /\ \A g \in Groups : \/ status'[g] = status[g]
                       \/ /\ status'[g] \in EndedStatuses
                          /\ \A i \in items[g] : route'[i] = NoItem
  /\ \A i \in Tokens : itemStatus'[i] \in {itemStatus[i]} \cup EndedStatuses

EndedStays ==
  \A g \in Groups : status[g] \in EndedStatuses => status'[g] \in EndedStatuses

LEMMA LifeStepKeeps ==
  ASSUME TypeOK, LifeInv, LifeStep PROVE LifeInv' /\ EndedStays
  <1> USE DEF LifeInv
  <1>1. \A g \in Groups : items[g] \subseteq Tokens
    BY DEF TypeOK
  <1>2. NothingReplaced'
    BY DEF NothingReplaced, LifeStep, LifeFrame, AbandonedOps
  <1>3. OwnTokens'
    BY DEF OwnTokens, LifeStep
  <1>4. \A g \in Groups : status'[g] = "UNMADE" => status[g] = "UNMADE"
    BY DEF LifeStep, EndedStatuses
  <1>5. HeldItems'
    <2> SUFFICES ASSUME NEW w \in Workers,
                        frame'[w].op \in {"CREATE", "CANCEL", "EXPIRE"}
                 PROVE  /\ frame'[w].group \in Groups
                        /\ status'[frame'[w].group] # "UNMADE"
                        /\ frame'[w].tokens = items'[frame'[w].group]
      BY DEF HeldItems
    <2>1. LifeFrame(w) /\ items' = items
      BY DEF LifeStep
    <2>2. /\ frame'[w].group \in Groups
          /\ status[frame'[w].group] # "UNMADE"
          /\ frame'[w].tokens = items[frame'[w].group]
      BY <2>1 DEF LifeFrame, HeldItems, AbandonedOps
    <2> QED
      BY <1>4, <2>1, <2>2
  <1>6. RegisteredMade'
    BY <1>4 DEF RegisteredMade, LifeStep, TypeOK
  <1>7. EndedUnrouted'
    <2> SUFFICES ASSUME NEW g \in Groups, status'[g] \in EndedStatuses,
                        NEW i \in items[g]
                 PROVE  route'[i] = NoItem
      BY DEF EndedUnrouted, LifeStep
    <2>1. i \in Tokens
      BY <1>1
    <2>2. CASE status'[g] = status[g]
      BY <2>1, <2>2 DEF EndedUnrouted, LifeStep
    <2>3. CASE status'[g] # status[g]
      BY <2>3 DEF LifeStep
    <2> QED
      BY <2>2, <2>3
  <1>8. FailedForGood'
    BY <1>1 DEF FailedForGood, LifeStep, EndedStatuses
  <1>9. ActiveGroups' \subseteq ActiveGroups
    BY DEF ActiveGroups, Active, LifeStep, ActiveStatuses, EndedStatuses, TypeOK
  <1>10. LimitHolds'
    BY <1>9, LimitKept
  <1>11. EndedStays
    BY DEF EndedStays, LifeStep
  <1> QED
    BY <1>2, <1>3, <1>5, <1>6, <1>7, <1>8, <1>10, <1>11

LEMMA SameLifeFrame ==
  ASSUME NEW w \in Workers, frame'[w] = frame[w] PROVE LifeFrame(w)
  BY DEF LifeFrame

LEMMA IdleLifeFrame ==
  ASSUME NEW w \in Workers, frame'[w] = Idle PROVE LifeFrame(w)
  BY DEF LifeFrame, Idle, Frame

LEMMA DeliversLifeFrame ==
  ASSUME TypeOK, NEW w \in Workers, NEW o, Delivers(w, o), NEW v \in Workers
  PROVE  LifeFrame(v)
  <1>1. CASE v # w
    BY <1>1, SameLifeFrame DEF Delivers, TypeOK
  <1>2. CASE v = w /\ frame[w].op \in AbandonedOps
    <2>1. frame'[w] = Idle
      BY <1>2 DEF Delivers, TypeOK
    <2> QED
      BY <1>2, <2>1, IdleLifeFrame
  <1>3. CASE v = w /\ frame[w].op \notin AbandonedOps
    <2>1. frame'[w] = [frame[w] EXCEPT !.stage = o] /\ frame[w] \in FrameType
      BY <1>3 DEF Delivers, TypeOK
    <2> QED
      BY <1>3, <2>1 DEF LifeFrame, FrameType
  <1> QED
    BY <1>1, <1>2, <1>3

LEMMA AbandonLifeFrame ==
  ASSUME TypeOK, NEW w \in Workers, Abandon(w), NEW v \in Workers
  PROVE  LifeFrame(v)
  <1>1. ASSUME NEW op \in AbandonedOps, v = w,
               frame'[w] = Calling(op, frame[w].group, frame[w].tokens,
                                   frame[w].asked, {})
        PROVE  LifeFrame(v)
    BY <1>1 DEF LifeFrame, Calling, Frame
  <1> QED
    BY <1>1, IdleLifeFrame, SameLifeFrame DEF Abandon, AbandonedOps, TypeOK

\* cancel and expire up to the native call, or to the end without one.
LEMMA UnsubscribesLife ==
  ASSUME TypeOK, LifeInv, NEW w \in Workers, NEW op \in {"CANCEL", "EXPIRE"},
         NEW g \in registered, NEW final \in EndedStatuses,
         Unsubscribes(w, op, g, final)
  PROVE  LifeStep
  <1>0. g \in Groups /\ items[g] \subseteq Tokens /\ status[g] # "UNMADE"
    BY DEF TypeOK, LifeInv, RegisteredMade
  <1>1. TokensOf(g) = items[g]
    BY <1>0 DEF TokensOf, LifeInv, OwnTokens
  <1>2. ASSUME NEW v \in Workers PROVE LifeFrame(v)
    <2>1. CASE frame'[v] = Calling(op, g, TokensOf(g), Asks(TokensOf(g)), {})
      BY <1>0, <1>1, <2>1 DEF LifeFrame, Calling, Frame
    <2> QED
      BY <2>1, SameLifeFrame DEF Unsubscribes, TypeOK
  <1>3. \A t \in Tokens : route'[t] \in {NoItem, route[t]}
    BY UnroutedShrinks DEF Unsubscribes, Ends
  <1>4. \A h \in Groups : \/ status'[h] = status[h]
                          \/ /\ status'[h] \in EndedStatuses
                             /\ \A i \in items[h] : route'[i] = NoItem
    BY <1>0, <1>1 DEF Unsubscribes, Ends, Unrouted, TypeOK
  <1>5. \A i \in Tokens : itemStatus'[i] \in {itemStatus[i]} \cup EndedStatuses
    BY DEF Unsubscribes, Ends
  <1> QED
    BY <1>2, <1>3, <1>4, <1>5 DEF LifeStep, Unsubscribes, bloombergVars

\* ... and after the native call: the tokens read before it are still those of
\* the group.
LEMMA UnsubscribedLife ==
  ASSUME TypeOK, LifeInv, NEW w \in Workers, NEW op \in {"CANCEL", "EXPIRE"},
         NEW final \in EndedStatuses, Unsubscribed(w, op, final)
  PROVE  LifeStep
  <1> DEFINE g == frame[w].group
  <1>0. g \in Groups /\ frame[w].tokens = items[g] /\ items[g] \subseteq Tokens
    BY DEF TypeOK, LifeInv, HeldItems, Unsubscribed, FailedTokens, Returned
  <1>2. \A v \in Workers : LifeFrame(v)
    BY IdleLifeFrame, SameLifeFrame DEF Unsubscribed, FailedTokens, TypeOK
  <1>3. \A t \in Tokens : route'[t] \in {NoItem, route[t]}
    BY UnroutedShrinks DEF Unsubscribed, FailedTokens, Ends
  <1>4. \A h \in Groups : \/ status'[h] = status[h]
                          \/ /\ status'[h] \in EndedStatuses
                             /\ \A i \in items[h] : route'[i] = NoItem
    BY <1>0 DEF Unsubscribed, FailedTokens, Ends, Unrouted, TypeOK
  <1>5. \A i \in Tokens : itemStatus'[i] \in {itemStatus[i]} \cup EndedStatuses
    BY DEF Unsubscribed, FailedTokens, Ends
  <1> QED
    BY <1>2, <1>3, <1>4, <1>5 DEF LifeStep, Unsubscribed, FailedTokens, bloombergVars

\* An event reaches a group only while the group is active, and whatever it
\* makes of it, it makes nothing active that was not.
LEMMA EventLife ==
  ASSUME RoutingInv, RoutingInv', LifeInv, NEW t \in Tokens, Event(t)
  PROVE  LifeInv' /\ EndedStays
  <1> USE DEF LifeInv
  <1>0. TypeOK /\ RoutedTokensAreCurrent /\ Owned
    BY DEF RoutingInv
  <1>1. UNCHANGED <<session, items, native, route, registered, frame>>
    BY DEF Event, EventStarted, EventFailed, EventUnsubscribed, routeVars
  <1>2. /\ heard[t] # "ENDED"
        /\ \A i \in Tokens : heard[i] = "ENDED" => heard'[i] = "ENDED"
    BY <1>0 DEF Event, EventStarted, EventFailed, EventUnsubscribed, TypeOK
  <1>3. PICK new \in {"ACTIVE", "FAILED", "CANCELLED"} :
          /\ HandleStatus(t, new)
          /\ new = "FAILED" => heard'[t] = "ENDED"
    BY <1>0 DEF Event, EventStarted, EventFailed, EventUnsubscribed, TypeOK
  <1>4. CASE UNCHANGED <<itemStatus, status>>
    <2>1. LimitHolds' /\ EndedStays
      BY <1>1, <1>4 DEF LimitHolds, EndedStays, Active
    <2>2. NothingReplaced' /\ OwnTokens' /\ HeldItems' /\ RegisteredMade'
          /\ EndedUnrouted'
      BY <1>1, <1>4 DEF NothingReplaced, OwnTokens, HeldItems, RegisteredMade,
                        EndedUnrouted
    <2>3. FailedForGood'
      BY <1>0, <1>1, <1>2, <1>4 DEF FailedForGood, TypeOK
    <2> QED
      BY <2>1, <2>2, <2>3
  <1>5. CASE ~ UNCHANGED <<itemStatus, status>>
    <2> DEFINE g == owner[t]
               next == [itemStatus EXCEPT ![t] = new]
    <2>1. /\ route[t] = t /\ g \in registered /\ t \in items[g]
          /\ itemStatus' = next
          /\ status' = [status EXCEPT
               ![g] = Recomputed({next[j] : j \in items[g]}, @)]
      <3>1. route[t] # NoItem
        BY <1>3, <1>5 DEF HandleStatus
      <3>2. route[t] = t
        BY <3>1 DEF OwnTokens
      <3> QED
        BY <1>3, <1>5, <3>2 DEF HandleStatus
    <2>2. g \in Groups /\ items[g] \subseteq Tokens /\ t # NoItem
      BY <1>0, <2>1, ConstantsAssumption DEF TypeOK, NoItem, Tokens
    <2>3. Active(g)
      <3>1. status[g] \notin EndedStatuses
        BY <2>1, <2>2 DEF EndedUnrouted
      <3>2. status[g] # "FAILED"
        BY <1>2, <2>1, <2>2 DEF FailedForGood
      <3>3. status[g] # "UNMADE"
        BY <2>1 DEF RegisteredMade
      <3>4. status[g] \in GroupStatuses
        BY <1>0, <2>2 DEF TypeOK
      <3> QED
        BY <3>1, <3>2, <3>3, <3>4 DEF Active, GroupStatuses
    <2>4. \A h \in Groups \ {g} : status'[h] = status[h]
      BY <1>0, <2>1 DEF TypeOK
    <2>5. status'[g] = Recomputed({next[j] : j \in items[g]}, status[g])
      BY <1>0, <2>1, <2>2 DEF TypeOK
    <2>6. /\ status'[g] \in ActiveStatuses \cup {"FAILED"}
          /\ status'[g] = "FAILED" => {next[j] : j \in items[g]} = {"FAILED"}
      BY <2>3, <2>5 DEF Recomputed, Active, ActiveStatuses
    <2>7. EndedStays
      BY <2>3, <2>4 DEF EndedStays, Active, ActiveStatuses, EndedStatuses
    <2>8. ActiveGroups' \subseteq ActiveGroups
      BY <1>0, <1>1, <2>1, <2>3, <2>4 DEF ActiveGroups, Active, TypeOK
    <2>9. LimitHolds'
      BY <1>0, <2>8, LimitKept
    <2>10. \A h \in Groups : status'[h] = "UNMADE" => status[h] = "UNMADE"
      BY <2>4, <2>6 DEF ActiveStatuses
    <2>11. NothingReplaced' /\ OwnTokens'
      BY <1>1 DEF NothingReplaced, OwnTokens
    <2>12. HeldItems' /\ RegisteredMade'
      BY <1>0, <1>1, <2>10 DEF HeldItems, RegisteredMade, TypeOK
    <2>13. EndedUnrouted'
      BY <1>1, <2>4, <2>6 DEF EndedUnrouted, ActiveStatuses, EndedStatuses
    <2>14. \A i \in Tokens : itemStatus'[i] = "FAILED" =>
             itemStatus[i] = "FAILED" \/ heard'[i] = "ENDED"
      BY <1>0, <1>3, <2>1 DEF TypeOK
    <2>15. \A h \in Groups : \A i \in items[h] :
             itemStatus'[i] = "FAILED" => heard'[i] = "ENDED"
      BY <1>0, <1>2, <2>14 DEF FailedForGood, TypeOK
    <2>16. status'[g] = "FAILED" => \A i \in items[g] : heard'[i] = "ENDED"
      <3>1. status'[g] = "FAILED" => \A i \in items[g] : itemStatus'[i] = "FAILED"
        BY <2>1, <2>6
      <3> QED
        BY <2>2, <2>15, <3>1
    <2>17. FailedForGood'
      <3>1. \A h \in Groups \ {g} :
              status'[h] = "FAILED" => \A i \in items[h] : heard'[i] = "ENDED"
        BY <1>0, <1>2, <2>4 DEF FailedForGood, TypeOK
      <3> QED
        BY <1>1, <2>15, <2>16, <3>1 DEF FailedForGood
    <2> QED
      BY <2>7, <2>9, <2>11, <2>12, <2>13, <2>17
  <1> QED
    BY <1>4, <1>5

\* create adds one group, and only below the limit.
LEMMA CreateLife ==
  ASSUME RoutingInv, RoutingInv', LifeInv, NEW w \in Callers, NEW g \in Groups,
         NEW n \in ItemCounts, CreateBegins(w, g, n)
  PROVE  LifeInv' /\ EndedStays
  <1> USE DEF LifeInv
  <1> DEFINE T == Fresh(n)
  <1>0. /\ TypeOK /\ Owned /\ Allocated /\ UnmadeEmpty
        /\ w \in Workers /\ lastToken \in Nat
    BY ConstantsAssumption DEF RoutingInv, TypeOK, Workers
  <1>1. /\ status[g] = "UNMADE" /\ lastToken + n <= MaxToken /\ MayCreate
        /\ session' = session /\ session = "CONNECTED" /\ heard' = heard
        /\ registered' = registered \cup {g}
        /\ status' = [status EXCEPT ![g] = "STARTING"]
        /\ NewItems(g, T) /\ RouteNew(T, {}, 1)
        /\ frame' = [frame EXCEPT ![w] = Calling("CREATE", g, T, T, {})]
    BY DEF CreateBegins, NothingReplaced, bloombergVars
  <1>2. T \in SUBSET Tokens /\ \A t \in T : t \in Nat /\ lastToken < t
    BY <1>0, <1>1, FreshTyped
  <1>3. \A t \in T : \A h \in Groups : t \notin items[h]
    BY <1>0, <1>2 DEF Allocated, TypeOK
  <1> HIDE DEF T
  <1>4. /\ items'[g] = T
        /\ \A h \in Groups \ {g} : items'[h] = items[h]
        /\ \A i \in T : native'[i] = i /\ itemStatus'[i] = "STARTING"
        /\ \A i \in Tokens \ T : native'[i] = native[i]
                                 /\ itemStatus'[i] = itemStatus[i]
    BY <1>0, <1>1, <1>2 DEF NewItems, TypeOK
  <1>5. /\ status'[g] = "STARTING"
        /\ \A h \in Groups \ {g} : status'[h] = status[h]
    BY <1>0, <1>1 DEF TypeOK
  <1>6. /\ frame'[w] = Calling("CREATE", g, T, T, {})
        /\ \A v \in Workers \ {w} : frame'[v] = frame[v]
    BY <1>0, <1>1 DEF TypeOK
  <1>7. /\ frame'[w].op = "CREATE" /\ frame'[w].group = g
        /\ frame'[w].tokens = T
    BY <1>6 DEF Calling, Frame
  <1>8. NothingReplaced'
    BY <1>1, <1>6, <1>7 DEF NothingReplaced
  <1>9. OwnTokens'
    <2>1. \A h \in Groups \ {g} : \A i \in items[h] : i \in Tokens \ T
      BY <1>0, <1>3 DEF TypeOK
    <2>2. \A h \in Groups : \A i \in items'[h] : native'[i] = i
      BY <1>4, <2>1 DEF OwnTokens
    <2>3. \A t \in Tokens : route'[t] \in {NoItem, t}
      BY <1>1 DEF RouteNew, Unrouted, OwnTokens
    <2> QED
      BY <2>2, <2>3 DEF OwnTokens
  <1>10. HeldItems'
    <2> SUFFICES ASSUME NEW v \in Workers,
                        frame'[v].op \in {"CREATE", "CANCEL", "EXPIRE"}
                 PROVE  /\ frame'[v].group \in Groups
                        /\ status'[frame'[v].group] # "UNMADE"
                        /\ frame'[v].tokens = items'[frame'[v].group]
      BY DEF HeldItems
    <2>1. CASE v = w
      BY <1>4, <1>5, <1>7, <2>1
    <2>2. CASE v # w
      <3>1. /\ frame'[v] = frame[v] /\ frame[v].group \in Groups
            /\ status[frame[v].group] # "UNMADE"
            /\ frame[v].tokens = items[frame[v].group]
        BY <1>6, <2>2 DEF HeldItems
      <3>2. frame[v].group # g
        BY <1>1, <3>1
      <3> QED
        BY <1>4, <1>5, <3>1, <3>2
    <2> QED
      BY <2>1, <2>2
  <1>11. RegisteredMade'
    BY <1>0, <1>1, <1>5 DEF RegisteredMade, TypeOK
  <1>12. EndedUnrouted'
    <2> SUFFICES ASSUME NEW h \in Groups, status'[h] \in EndedStatuses,
                        NEW i \in items'[h]
                 PROVE  route'[i] = NoItem
      BY DEF EndedUnrouted
    <2>1. h # g
      BY <1>5 DEF EndedStatuses
    <2>2. i \in items[h] /\ status[h] \in EndedStatuses
      BY <1>4, <1>5, <2>1
    <2>3. i \in Tokens /\ i \notin T /\ route[i] = NoItem
      BY <1>0, <1>3, <2>2 DEF EndedUnrouted, TypeOK
    <2> QED
      BY <1>1, <2>3 DEF RouteNew, Unrouted
  <1>13. FailedForGood'
    <2>1. \A h \in Groups \ {g} : \A i \in items[h] : i \in Tokens \ T
      BY <1>0, <1>3 DEF TypeOK
    <2>2. ASSUME NEW h \in Groups, NEW i \in items'[h],
                 itemStatus'[i] = "FAILED"
          PROVE  heard'[i] = "ENDED"
      BY <1>1, <1>4, <2>1, <2>2 DEF FailedForGood
    <2>3. ASSUME NEW h \in Groups, status'[h] = "FAILED", NEW i \in items'[h]
          PROVE  heard'[i] = "ENDED"
      BY <1>1, <1>4, <1>5, <2>3 DEF FailedForGood
    <2> QED
      BY <2>2, <2>3 DEF FailedForGood
  <1>14. LimitHolds'
    <2>1. ActiveGroups' = ActiveGroups \cup {g}
      BY <1>0, <1>1, <1>5 DEF ActiveGroups, Active, ActiveStatuses, TypeOK
    <2>2. IsFiniteSet(ActiveGroups)
      <3>1. ActiveGroups \subseteq Groups
        BY <1>0 DEF ActiveGroups, TypeOK
      <3> QED
        BY <3>1, ConstantsAssumption, FS_Subset
    <2>3. /\ Cardinality(ActiveGroups) \in Nat
          /\ Cardinality(ActiveGroups) < MaxPerPrincipal
      BY <1>1, <2>2, FS_CardinalityType DEF MayCreate, ActiveGroups
    <2>4. g \notin ActiveGroups
      BY <1>1 DEF ActiveGroups, Active, ActiveStatuses
    <2>5. Cardinality(ActiveGroups') = Cardinality(ActiveGroups) + 1
      BY <2>1, <2>2, <2>4, FS_AddElement
    <2>6. Cardinality(ActiveGroups') <= MaxPerPrincipal
      BY <2>3, <2>5, ConstantsAssumption
    <2> QED
      BY <2>6 DEF LimitHolds, ActiveGroups
  <1>15. EndedStays
    BY <1>1, <1>5 DEF EndedStays, EndedStatuses
  <1> QED
    BY <1>8, <1>9, <1>10, <1>11, <1>12, <1>13, <1>14, <1>15

LEMMA NextLife ==
  ASSUME OneLife, RoutingInv, RoutingInv', LifeInv, [Next]_vars
  PROVE  LifeInv' /\ EndedStays
  <1>0. /\ TypeOK /\ Owned /\ Allocated /\ NothingReplaced
        /\ Callers \subseteq Workers /\ Restorers \subseteq Workers
        /\ Sweeper \in Workers
    BY DEF RoutingInv, LifeInv, Workers
  <1>1. ASSUME LifeStep PROVE LifeInv' /\ EndedStays
    BY <1>0, <1>1, LifeStepKeeps
  <1> USE DEF groupVars, itemVars, routeVars, bloombergVars
  <1>2. ASSUME NEW w \in Callers, NEW n \in ItemCounts, CreateInvalid(w, n)
        PROVE  LifeStep
    <2>1. /\ UNCHANGED <<session, items, native, heard, registered, status,
                         itemStatus, frame>>
          /\ route' = [t \in Tokens |-> IF t \in Fresh(n) THEN t ELSE route[t]]
          /\ lastToken + n <= MaxToken
      BY <1>2 DEF CreateInvalid
    <2>2. \A t \in Fresh(n) : t \in Nat /\ lastToken < t
      BY <1>0, <2>1, FreshTyped
    <2>3. \A t \in Fresh(n) : \A g \in Groups : t \notin items[g]
      BY <1>0, <2>2, ConstantsAssumption DEF Allocated, TypeOK
    <2>4. \A v \in Workers : LifeFrame(v)
      BY <2>1, SameLifeFrame
    <2> QED
      BY <2>1, <2>3, <2>4 DEF LifeStep
  <1>3. ASSUME NEW w \in Callers, CreateReturns(w) PROVE LifeStep
    <2>1. \A v \in Workers : LifeFrame(v)
      BY <1>0, <1>3, IdleLifeFrame, SameLifeFrame DEF CreateReturns, TypeOK
    <2>2. \A t \in Tokens : route'[t] \in {NoItem, route[t]}
      BY <1>3, UnroutedShrinks DEF CreateReturns
    <2> QED
      BY <1>3, <2>1, <2>2 DEF CreateReturns, LifeStep
  <1>4. ASSUME NEW w \in Callers, NEW g \in Groups, CancelBegins(w, g)
        PROVE  LifeStep
    BY <1>0, <1>4, UnsubscribesLife DEF CancelBegins, EndedStatuses
  <1>5. ASSUME NEW w \in Callers, CancelReturns(w) PROVE LifeStep
    BY <1>0, <1>5, UnsubscribedLife DEF CancelReturns, EndedStatuses
  <1>6. ASSUME Sweep PROVE LifeStep
    <2>1. ASSUME NEW g \in Groups, ExpireBegins(g) PROVE LifeStep
      BY <1>0, <2>1, UnsubscribesLife DEF ExpireBegins, EndedStatuses
    <2>2. ASSUME ExpireReturns PROVE LifeStep
      BY <1>0, <2>2, UnsubscribedLife DEF ExpireReturns, EndedStatuses
    <2>3. ASSUME NEW t \in Tokens, RetryBegins(t) PROVE LifeStep
      <3>1. ASSUME NEW v \in Workers PROVE LifeFrame(v)
        <4>1. CASE frame'[v] = Calling("RETRY", NoGroup, {t}, Asks({t}), {})
          BY <4>1 DEF LifeFrame, Calling, Frame
        <4> QED
          BY <1>0, <2>3, <4>1, SameLifeFrame DEF RetryBegins, TypeOK
      <3> QED
        BY <2>3, <3>1 DEF RetryBegins, LifeStep
    <2>4. ASSUME RetryReturns PROVE LifeStep
      <3>1. \A v \in Workers : LifeFrame(v)
        BY <1>0, <2>4, IdleLifeFrame, SameLifeFrame DEF RetryReturns, TypeOK
      <3> QED
        BY <2>4, <3>1 DEF RetryReturns, LifeStep
    <2> QED
      BY <1>6, <2>1, <2>2, <2>3, <2>4 DEF Sweep
  <1>7. ASSUME NEW w \in Workers, CallReturns(w) PROVE LifeStep
    <2>1. \A v \in Workers : LifeFrame(v)
      BY <1>0, <1>7, DeliversLifeFrame
      DEF CallReturns, SubscribeCallReturns, UnsubscribeCallReturns
    <2>2. UNCHANGED <<session, items, native, heard, registered, status,
                      itemStatus, route>>
      BY <1>7 DEF CallReturns, SubscribeCallReturns, UnsubscribeCallReturns
    <2> QED
      BY <2>1, <2>2 DEF LifeStep
  <1>8. ASSUME NEW w \in Callers, Abandon(w) PROVE LifeStep
    <2>1. \A v \in Workers : LifeFrame(v)
      BY <1>0, <1>8, AbandonLifeFrame
    <2>2. UNCHANGED <<session, items, native, heard, registered, status,
                      itemStatus, route>>
      BY <1>8 DEF Abandon
    <2> QED
      BY <2>1, <2>2 DEF LifeStep
  <1>9. ASSUME NEW g \in Groups, TimeToLivePasses(g) PROVE LifeStep
    <2>1. \A v \in Workers : LifeFrame(v)
      BY <1>9, SameLifeFrame DEF TimeToLivePasses
    <2> QED
      BY <1>9, <2>1 DEF TimeToLivePasses, LifeStep
  <1>10. CASE UNCHANGED vars
    <2>1. \A v \in Workers : LifeFrame(v)
      BY <1>10, SameLifeFrame DEF vars
    <2>2. LifeStep
      BY <1>10, <2>1 DEF vars, LifeStep
    <2> QED
      BY <1>1, <2>2
  \* What resubscribe and the loss of the session would do does not happen.
  <1>11. /\ \A w \in Callers, g \in Groups, n \in ItemCounts :
              ~ ResubscribeBegins(w, g, n)
         /\ \A w \in Callers : /\ ~ ResubscribeCommits(w)
                               /\ ~ ResubscribeFails(w)
                               /\ ~ RollbackReturns(w)
         /\ \A w \in Restorers : ~ Reconnect(w) /\ ~ Restore(w)
         /\ ~ LoseSession /\ ~ TearDown /\ ~ StartNative
    BY <1>0 DEF OneLife, NothingReplaced, ResubscribeBegins, ResubscribeCommits,
                ResubscribeFails, RollbackReturns, Returned, Reconnect, Restore,
                RestoreBegins, RestoreReturns, LoseSession, TearDown,
                StartNative
  <1>12. ASSUME NEW w \in Callers, Client(w) PROVE LifeInv' /\ EndedStays
    BY <1>1, <1>2, <1>4, <1>8, <1>11, <1>12, CreateLife DEF Client
  <1>13. ASSUME NEW w \in Callers, Resume(w) PROVE LifeInv' /\ EndedStays
    BY <1>1, <1>3, <1>5, <1>11, <1>13 DEF Resume
  <1> QED
    BY <1>1, <1>6, <1>7, <1>9, <1>10, <1>11, <1>12, <1>13, EventLife DEF Next

LEMMA LifeInvariant ==
  ASSUME OneLife PROVE Spec => [](RoutingInv /\ LifeInv)
  <1>1. Init => RoutingInv /\ LifeInv
    BY InitRouting, InitLife
  <1>2. RoutingInv /\ LifeInv /\ [Next]_vars => (RoutingInv /\ LifeInv)'
    BY NextRouting, NextLife
  <1> QED
    BY <1>1, <1>2, PTL DEF Spec

\* Where no client resubscribes and the session is not lost, the groups a
\* principal has active never exceed maximum_per_principal, however creations,
\* failures, events, cancellations and expiries interleave.
THEOREM LimitSafe == ASSUME OneLife PROVE Spec => []LimitHolds
  <1>1. LifeInv => LimitHolds
    BY DEF LifeInv
  <1> QED
    BY <1>1, LifeInvariant, PTL

\* Under the same conditions no token leads handle_event to a group that was
\* cancelled or has expired.
THEOREM EndedSafe == ASSUME OneLife PROVE Spec => []EndedIsQuiet
  <1>1. RoutingInv /\ LifeInv => EndedIsQuiet
    <2> SUFFICES ASSUME RoutingInv, LifeInv, NEW t \in Tokens, Located(t)
                 PROVE  status[owner[route[t]]] \notin EndedStatuses
      BY DEF EndedIsQuiet
    <2>1. route[t] = t
      BY DEF LifeInv, OwnTokens, Located
    <2>2. owner[t] \in Groups /\ t \in items[owner[t]] /\ route[t] # NoItem
      BY <2>1 DEF RoutingInv, RoutedTokensAreCurrent, Located, TypeOK
    <2> QED
      BY <2>1, <2>2 DEF LifeInv, EndedUnrouted
  <1> QED
    BY <1>1, LifeInvariant, PTL

\* ... and nothing, no late event and no returning call, gives such a group
\* another life.
THEOREM EndedForGood == ASSUME OneLife PROVE Spec => EndedStaysEnded
  <1>1. RoutingInv /\ LifeInv /\ [Next]_vars =>
          [\A g \in Groups :
             status[g] \in EndedStatuses => status'[g] \in EndedStatuses]_vars
    BY NextRouting, NextLife DEF EndedStays
  <1> QED
    BY <1>1, LifeInvariant, PTL DEF Spec, EndedStaysEnded

-----------------------------------------------------------------------------
(* The feeds.  The invariant, in three layers: tokens, feeds and statuses. *)

\* The groups events are routed to, and the tokens each group's items have.
Linked == {g \in registered : \A i \in items[g] : route[native[i]] = i}
TokenTable == [g \in Groups |-> TokensOf(g)]

\* T has all the tokens of each group of L, or none; only tokens of g; none.
AllOrNone(L, H, T) == \A g \in L : H[g] \subseteq T \/ H[g] \cap T = {}
OnlyOf(L, H, g, T) ==
  \A h \in L : H[h] \cap T = {} \/ (h = g /\ H[h] \subseteq T)
Apart(L, H, T) == \A h \in L : H[h] \cap T = {}

\* No two items have one token.
Distinct ==
  \A g, h \in Groups : \A i \in items[g], j \in items[h] :
    native[i] = native[j] => i = j

\* A token that was never allocated is not routed.
RoutesAllocated == \A t \in Tokens : route[t] # NoItem => t <= lastToken

\* The items of a registered group are routed together; a group that lost its
\* routes is not active.
Down(g) == ~Active(g) /\ \A i \in items[g] : route[native[i]] = NoItem
LinkedOrDown == \A g \in registered : g \in Linked \/ Down(g)

\* A coroutine asks Bloomberg for all the feeds of a group or for none.  When it
\* takes routes out, they are all those of its group or none of any.
FrameFine(f, L, H, C) ==
  /\ f.asked \subseteq f.tokens
  /\ f.stage = "CALLING" => AllOrNone(L, H, f.asked)
  /\ f.op \in {"CREATE", "RESTORE", "CANCEL", "EXPIRE"} =>
       f.group \in Groups /\ OnlyOf(L, H, f.group, f.tokens)
  /\ f.op = "ROLLBACK" => Apart(L, H, f.tokens)
  /\ f.op = "RESUBSCRIBE" => f.tokens \subseteq C /\ f.asked = f.tokens

TokensInv ==
  /\ Distinct
  /\ RoutesAllocated
  /\ LinkedOrDown
  /\ AllOrNone(Linked, TokenTable, cids)
  /\ \A w \in Workers : FrameFine(frame[w], Linked, TokenTable, cids)

\* What Bloomberg does with feeds that were asked for together, it does with
\* all that are still running.
Running(t, fd, hd) == fd[t] \in {"OPEN", "LOST"} /\ hd[t] # "ENDED"
Even(T, fd, hd) ==
  \A s, t \in T :
    /\ ~(fd[s] = "CLOSED" /\ Running(t, fd, hd))
    /\ ~(fd[s] = "OPEN" /\ fd[t] = "LOST" /\ hd[t] # "ENDED")

FeedsKnown ==
  \A t \in Tokens :
    /\ lastToken < t => feed[t] = "NONE"
    /\ heard[t] # "NONE" => feed[t] \in {"OPEN", "CLOSED", "LOST"}

Opening(f) ==
  f.op \in SubscribeOps \cup {"ABANDONED_SUBSCRIBE"} /\ f.stage = "CALLING"

\* Feeds that are being asked for are not there yet, and are asked for once.
OpeningNew ==
  \A w \in Workers : Opening(frame[w]) =>
    /\ \A t \in frame[w].asked : feed[t] \in {"NONE", "REFUSED"}
    /\ \A v \in Workers \ {w} : Opening(frame[v]) =>
         frame[v].asked \cap frame[w].asked = {}

ProspectiveFeeds ==
  \A w \in Workers : frame[w].op = "RESUBSCRIBE" =>
    /\ Even(frame[w].tokens, feed, heard)
    /\ \A t \in frame[w].tokens : feed[t] # "CLOSED"

FeedsTogether == \A g \in Linked : Even(TokenTable[g], feed, heard)

FeedInv == FeedsKnown /\ OpeningNew /\ ProspectiveFeeds /\ FeedsTogether

\* The status of an item that is routed is not ahead of Bloomberg.
ItemsConfirmed ==
  \A g \in Linked : \A i \in items[g] :
    itemStatus[i] = "ACTIVE" => heard[native[i]] = "STARTED"

\* An active group has active items, or its feeds were closed at the gateway's
\* request and it was left as it was.
ActiveShape ==
  \A g \in registered : status[g] = "ACTIVE" =>
    \/ \A i \in items[g] : itemStatus[i] = "ACTIVE"
    \/ \A i \in items[g] : feed[native[i]] = "CLOSED"

ConfirmedInv == TokensInv /\ FeedInv /\ ItemsConfirmed /\ ActiveShape

-----------------------------------------------------------------------------
(* Groups that are linked later were linked before, with the same tokens,  *)
(* or have tokens outside a set: what the set had of each group it has.    *)

LEMMA SetsKept ==
  ASSUME NEW L, NEW L2, NEW H, NEW H2, NEW T, NEW g,
         \A h \in L2 : (h \in L /\ H2[h] = H[h]) \/ H2[h] \cap T = {}
  PROVE  /\ AllOrNone(L, H, T) => AllOrNone(L2, H2, T)
         /\ OnlyOf(L, H, g, T) => OnlyOf(L2, H2, g, T)
         /\ Apart(L, H, T) => Apart(L2, H2, T)
  BY DEF AllOrNone, OnlyOf, Apart

LEMMA OnlyOfWhole ==
  ASSUME NEW L, NEW H, NEW g, NEW T, OnlyOf(L, H, g, T)
  PROVE  AllOrNone(L, H, T)
  BY DEF AllOrNone, OnlyOf

LEMMA WholeLess ==
  ASSUME NEW L, NEW H, NEW T, NEW X, AllOrNone(L, H, T), AllOrNone(L, H, X)
  PROVE  AllOrNone(L, H, T \ X) /\ AllOrNone(L, H, T \cap X)
  BY DEF AllOrNone

\* A coroutine that keeps its frame, goes on with it or is abandoned.
FrameGoesOn(f, f2) ==
  /\ f2.asked = f.asked /\ f2.tokens = f.tokens /\ f2.group = f.group
  /\ f2.op = f.op \/ f2.op \in AbandonedOps
  /\ f2.stage = "CALLING" => f.stage = "CALLING"

LEMMA FrameKept ==
  ASSUME NEW L, NEW L2, NEW H, NEW H2, NEW C, NEW C2, NEW f, NEW f2,
         FrameFine(f, L, H, C), FrameGoesOn(f, f2),
         \A h \in L2 : (h \in L /\ H2[h] = H[h]) \/ H2[h] \cap f.tokens = {},
         f2.op = "RESUBSCRIBE" => f.tokens \cap C \subseteq C2
  PROVE  FrameFine(f2, L2, H2, C2)
  <1>1. \A h \in L2 : (h \in L /\ H2[h] = H[h]) \/ H2[h] \cap f.asked = {}
    BY DEF FrameFine
  <1>2. f2.stage = "CALLING" => AllOrNone(L2, H2, f2.asked)
    BY <1>1, SetsKept DEF FrameFine, FrameGoesOn
  <1>3. f2.op \in {"CREATE", "RESTORE", "CANCEL", "EXPIRE"} =>
          f2.group \in Groups /\ OnlyOf(L2, H2, f2.group, f2.tokens)
    BY SetsKept DEF FrameFine, FrameGoesOn, AbandonedOps
  <1>4. f2.op = "ROLLBACK" => Apart(L2, H2, f2.tokens)
    BY SetsKept DEF FrameFine, FrameGoesOn, AbandonedOps
  <1>5. f2.op = "RESUBSCRIBE" => f2.tokens \subseteq C2 /\ f2.asked = f2.tokens
    BY DEF FrameFine, FrameGoesOn, AbandonedOps
  <1>6. f2.asked \subseteq f2.tokens
    BY DEF FrameFine, FrameGoesOn
  <1> QED
    BY <1>2, <1>3, <1>4, <1>5, <1>6 DEF FrameFine

LEMMA FrameGoesOnSame == \A f : FrameGoesOn(f, f)
  BY DEF FrameGoesOn

\* A coroutine that waits for nothing.
Resting(f) == /\ f.op \in {"IDLE", "RESTORE_DUE"}
              /\ f.asked = {} /\ f.stage = "NONE"

LEMMA RestingFine ==
  ASSUME NEW L, NEW H, NEW C, NEW f, Resting(f) PROVE FrameFine(f, L, H, C)
  BY DEF Resting, FrameFine

LEMMA IdleRests == Resting(Idle)
  BY DEF Resting, Idle, Frame

LEMMA TokenTableIs == \A g \in Groups : TokenTable[g] = TokensOf(g)
  BY DEF TokenTable

LEMMA InitTokens == Init => TokensInv
  <1> SUFFICES ASSUME Init PROVE TokensInv
    OBVIOUS
  <1>1. Linked = {} /\ LinkedOrDown
    BY DEF Init, Linked, LinkedOrDown
  <1>2. AllOrNone(Linked, TokenTable, cids)
    BY <1>1 DEF AllOrNone
  <1>3. \A w \in Workers : FrameFine(frame[w], Linked, TokenTable, cids)
    BY IdleRests, RestingFine DEF Init
  <1>4. Distinct /\ RoutesAllocated
    BY DEF Init, Distinct, RoutesAllocated
  <1> QED
    BY <1>1, <1>2, <1>3, <1>4 DEF TokensInv

\* The tokens of one group are no other's.
LEMMA OwnTokensOnly ==
  ASSUME TypeOK, Owned, Distinct, NEW g \in Groups
  PROVE  /\ \A h \in Groups \ {g} : TokensOf(h) \cap TokensOf(g) = {}
         /\ OnlyOf(Linked, TokenTable, g, TokensOf(g))
  <1>1. ASSUME NEW h \in Groups \ {g}, NEW t \in TokensOf(h), t \in TokensOf(g)
        PROVE  FALSE
    <2>1. PICK i \in items[h] : t = native[i]
      BY DEF TokensOf
    <2>2. PICK j \in items[g] : t = native[j]
      BY <1>1 DEF TokensOf
    <2>3. i = j
      BY <2>1, <2>2 DEF Distinct
    <2> QED
      BY <2>1, <2>2, <2>3 DEF Owned
  <1>2. \A h \in Groups \ {g} : TokensOf(h) \cap TokensOf(g) = {}
    BY <1>1
  <1>3. Linked \subseteq Groups
    BY DEF Linked, TypeOK
  <1> QED
    BY <1>2, <1>3, TokenTableIs DEF OnlyOf

\* A token without a route belongs to no linked group.
LEMMA UnroutedApart ==
  ASSUME TypeOK, NEW T, \A t \in T : t \in Tokens /\ route[t] = NoItem
  PROVE  Apart(Linked, TokenTable, T)
  <1> SUFFICES ASSUME NEW g \in Linked, NEW t \in TokenTable[g], t \in T
               PROVE  FALSE
    BY DEF Apart
  <1>1. g \in Groups
    BY DEF Linked, TypeOK
  <1>2. PICK i \in items[g] : t = native[i]
    BY <1>1, TokenTableIs DEF TokensOf
  <1>3. route[t] = i /\ i \in Tokens
    BY <1>1, <1>2 DEF Linked, TypeOK
  <1> QED
    BY <1>3, ConstantsAssumption DEF Tokens, NoItem

\* A step that gives no item another token, links no group and keeps what is
\* linked or down so.
LEMMA TokensKept ==
  ASSUME TypeOK, TypeOK', TokensInv,
         UNCHANGED <<items, native>>, registered' \subseteq registered,
         lastToken <= lastToken',
         \A t \in Tokens : t <= lastToken => route'[t] \in {NoItem, route[t]},
         RoutesAllocated', LinkedOrDown',
         Allocated, Owned,
         AllOrNone(Linked, TokenTable, cids'),
         \A v \in Workers :
           \/ FrameFine(frame'[v], Linked, TokenTable, cids')
           \/ /\ FrameGoesOn(frame[v], frame'[v])
              /\ frame'[v].op = "RESUBSCRIBE" =>
                   frame[v].tokens \cap cids \subseteq cids'
  PROVE  TokensInv' /\ Linked' \subseteq Linked /\ TokenTable' = TokenTable
  <1> USE DEF TokensInv
  <1>1. TokenTable' = TokenTable
    BY DEF TokenTable, TokensOf
  <1>2. ASSUME NEW g \in Linked' PROVE g \in Linked
    <2>1. g \in registered /\ g \in Groups
      BY <1>2 DEF Linked, TypeOK
    <2>2. ASSUME NEW i \in items[g] PROVE route[native[i]] = i
      <3>1. native[i] \in Tokens /\ native[i] <= lastToken /\ i \in Tokens
        BY <2>1, <2>2 DEF Owned, Allocated, TypeOK
      <3>2. route'[native[i]] = i
        BY <1>2, <2>2 DEF Linked
      <3>3. i # NoItem
        BY <3>1, ConstantsAssumption DEF Tokens, NoItem
      <3> QED
        BY <3>1, <3>2, <3>3
    <2> QED
      BY <2>1, <2>2 DEF Linked
  <1>3. \A h \in Linked' : h \in Linked /\ TokenTable'[h] = TokenTable[h]
    BY <1>1, <1>2
  <1>4. AllOrNone(Linked', TokenTable', cids')
    BY <1>3, SetsKept
  <1>5. ASSUME NEW v \in Workers
        PROVE  FrameFine(frame'[v], Linked', TokenTable', cids')
    <2>1. CASE FrameFine(frame'[v], Linked, TokenTable, cids')
      <3>1. FrameGoesOn(frame'[v], frame'[v])
        BY FrameGoesOnSame
      <3> QED
        BY <1>3, <2>1, <3>1, FrameKept
    <2>2. CASE /\ FrameGoesOn(frame[v], frame'[v])
               /\ frame'[v].op = "RESUBSCRIBE" =>
                    frame[v].tokens \cap cids \subseteq cids'
      <3>1. FrameFine(frame[v], Linked, TokenTable, cids)
        OBVIOUS
      <3> QED
        BY <1>3, <2>2, <3>1, FrameKept
    <2> QED
      BY <2>1, <2>2
  <1>6. Distinct'
    BY DEF Distinct
  <1>7. Linked' \subseteq Linked
    BY <1>2
  <1> QED
    BY <1>1, <1>4, <1>5, <1>6, <1>7

\* The routes of T go: those of all tokens of a group, and then the group is
\* not active, or none.
LEMMA LinkedOrDownKept ==
  ASSUME TypeOK, TokensInv, Owned, Allocated,
         UNCHANGED <<items, native>>, registered' \subseteq registered,
         NEW T,
         \A t \in Tokens : t <= lastToken =>
           route'[t] = IF t \in T THEN NoItem ELSE route[t],
         \A g \in registered' :
           /\ Active(g)' => Active(g) \/ g \in Linked
           /\ g \in Linked => \/ TokensOf(g) \cap T = {}
                              \/ TokensOf(g) \subseteq T /\ ~Active(g)'
  PROVE  LinkedOrDown'
  <1> SUFFICES ASSUME NEW g \in registered' PROVE g \in Linked' \/ Down(g)'
    BY DEF LinkedOrDown
  <1>1. /\ g \in registered /\ g \in Groups
        /\ \A i \in items[g] : native[i] \in Tokens /\ native[i] <= lastToken
                               /\ native[i] \in TokensOf(g)
    BY DEF TypeOK, Owned, Allocated, TokensOf
  <1>2. \A i \in items[g] : route'[native[i]] =
          IF native[i] \in T THEN NoItem ELSE route[native[i]]
    BY <1>1
  <1>3. CASE g \in Linked /\ TokensOf(g) \cap T = {}
    BY <1>1, <1>2, <1>3 DEF Linked
  <1>4. CASE TokensOf(g) \subseteq T /\ ~Active(g)'
    BY <1>1, <1>2, <1>4 DEF Down, Active
  <1>5. CASE g \notin Linked
    <2>1. Down(g)
      BY <1>1, <1>5 DEF TokensInv, LinkedOrDown
    <2>2. ~Active(g)'
      BY <1>5, <2>1 DEF Down
    <2> QED
      BY <1>2, <2>1, <2>2 DEF Down, Active
  <1> QED
    BY <1>3, <1>4, <1>5

\* In particular when no route of an item goes and no group becomes active.
LEMMA LinkedOrDownSame ==
  ASSUME TypeOK, TokensInv, Owned, Allocated,
         UNCHANGED <<items, native, route>>, registered' \subseteq registered,
         \A g \in registered' : Active(g)' => Active(g)
  PROVE  LinkedOrDown'
  <1>1. \A t \in Tokens : t <= lastToken =>
          route'[t] = IF t \in {} THEN NoItem ELSE route[t]
    OBVIOUS
  <1>2. \A g \in registered' :
           /\ Active(g)' => Active(g) \/ g \in Linked
           /\ g \in Linked => \/ TokensOf(g) \cap {} = {}
                              \/ TokensOf(g) \subseteq {} /\ ~Active(g)'
    OBVIOUS
  <1> QED
    BY <1>1, <1>2, LinkedOrDownKept

\* Routes that go were those of allocated tokens.
LEMMA RoutesAllocatedKept ==
  ASSUME TypeOK, RoutesAllocated, lastToken <= lastToken', lastToken' \in Nat,
         \A t \in Tokens : route'[t] \in {NoItem, route[t]}
  PROVE  RoutesAllocated'
  BY ConstantsAssumption DEF RoutesAllocated, TypeOK, Tokens

\* The steps that take out no route and no correlation id, and link nothing.
LEMMA QuietTokens ==
  ASSUME TypeOK, TypeOK', TokensInv, Owned, Allocated,
         UNCHANGED <<items, native, route, cids>>,
         registered' \subseteq registered, lastToken <= lastToken',
         \A g \in registered' : Active(g)' => Active(g),
         \A v \in Workers : \/ FrameFine(frame'[v], Linked, TokenTable, cids)
                            \/ FrameGoesOn(frame[v], frame'[v])
  PROVE  TokensInv' /\ Linked' \subseteq Linked /\ TokenTable' = TokenTable
  <1>1. lastToken' \in Nat
    BY ConstantsAssumption DEF TypeOK
  <1>2. LinkedOrDown'
    BY LinkedOrDownSame
  <1>3. RoutesAllocated'
    BY <1>1, RoutesAllocatedKept DEF TokensInv
  <1> QED
    BY <1>2, <1>3, TokensKept DEF TokensInv

\* A step after which the native call of w has come back, or w goes on alone.
LEMMA DeliversGoesOn ==
  ASSUME TypeOK, NEW w \in Workers, NEW o \in {"OK", "FAILED"}, Delivers(w, o),
         NEW v \in Workers, NEW L, NEW H, NEW C
  PROVE  FrameFine(frame'[v], L, H, C) \/ FrameGoesOn(frame[v], frame'[v])
  <1>1. CASE v # w
    BY <1>1, FrameGoesOnSame DEF Delivers, TypeOK
  <1>2. CASE v = w /\ frame[w].op \in AbandonedOps
    <2>1. frame'[w] = Idle
      BY <1>2 DEF Delivers, TypeOK
    <2> QED
      BY <1>2, <2>1, IdleRests, RestingFine
  <1>3. CASE v = w /\ frame[w].op \notin AbandonedOps
    <2>1. frame'[w] = [frame[w] EXCEPT !.stage = o] /\ frame[w] \in FrameType
      BY <1>3 DEF Delivers, TypeOK
    <2> QED
      BY <1>3, <2>1 DEF FrameGoesOn, FrameType
  <1> QED
    BY <1>1, <1>2, <1>3

LEMMA AbandonGoesOn ==
  ASSUME TypeOK, NEW w \in Workers, Abandon(w), NEW v \in Workers,
         NEW L, NEW H, NEW C
  PROVE  FrameFine(frame'[v], L, H, C) \/ FrameGoesOn(frame[v], frame'[v])
  <1>1. ASSUME NEW op \in AbandonedOps, v = w, frame[w].stage = "CALLING",
               frame'[w] = Calling(op, frame[w].group, frame[w].tokens,
                                   frame[w].asked, {})
        PROVE  FrameGoesOn(frame[v], frame'[v])
    BY <1>1 DEF FrameGoesOn, Calling, Frame
  <1> QED
    BY <1>1, IdleRests, RestingFine, FrameGoesOnSame
    DEF Abandon, AbandonedOps, TypeOK

\* One frame goes idle, the others stay.
LEMMA IdleGoesOn ==
  ASSUME TypeOK, NEW w \in Workers, frame' = [frame EXCEPT ![w] = Idle],
         NEW v \in Workers, NEW L, NEW H, NEW C
  PROVE  /\ FrameFine(frame'[v], L, H, C) \/ FrameGoesOn(frame[v], frame'[v])
         /\ FrameFine(frame'[v], L, H, C) \/ frame'[v] = frame[v]
  BY IdleRests, RestingFine, FrameGoesOnSame DEF TypeOK

\* What a step that links nothing leaves.
TokensStep ==
  TokensInv' /\ Linked' \subseteq Linked /\ TokenTable' = TokenTable

LEMMA QuietActions ==
  ASSUME RoutingInv, TypeOK', TokensInv
  PROVE  /\ \A w \in Workers : CallReturns(w) => TokensStep
         /\ \A w \in Callers : Abandon(w) => TokensStep
         /\ \A w \in Restorers : Reconnect(w) => TokensStep
         /\ RetryReturns => TokensStep
         /\ \A g \in Groups : TimeToLivePasses(g) => TokensStep
         /\ LoseSession \/ TearDown \/ StartNative \/ UNCHANGED vars
              => TokensStep
  <1> USE DEF groupVars, itemVars, routeVars, bloombergVars
  <1>0. /\ TypeOK /\ Owned /\ Allocated /\ lastToken \in Nat
        /\ Callers \subseteq Workers /\ Restorers \subseteq Workers
        /\ Sweeper \in Workers
    BY ConstantsAssumption DEF RoutingInv, TypeOK, Workers
  <1>1. ASSUME UNCHANGED <<items, native, route, cids, registered, status,
                           lastToken>>,
               \A v \in Workers : \/ FrameFine(frame'[v], Linked, TokenTable, cids)
                                  \/ FrameGoesOn(frame[v], frame'[v])
        PROVE  TokensStep
    <2>1. registered' \subseteq registered /\ lastToken <= lastToken'
          /\ \A g \in registered' : Active(g)' => Active(g)
      BY <1>0, <1>1 DEF Active
    <2> QED
      BY <1>0, <1>1, <2>1, QuietTokens DEF TokensStep
  <1>2. ASSUME NEW w \in Workers, CallReturns(w) PROVE TokensStep
    BY <1>0, <1>1, <1>2, DeliversGoesOn
    DEF CallReturns, SubscribeCallReturns, UnsubscribeCallReturns
  <1>3. ASSUME NEW w \in Callers, Abandon(w) PROVE TokensStep
    <2>1. UNCHANGED <<items, native, route, cids, registered, status,
                      lastToken>>
      BY <1>3 DEF Abandon
    <2> QED
      BY <1>0, <1>1, <1>3, <2>1, AbandonGoesOn
  <1>4. ASSUME NEW w \in Restorers, Reconnect(w) PROVE TokensStep
    <2>1. Resting([Idle EXCEPT !.op = "RESTORE_DUE"])
      BY DEF Resting, Idle, Frame
    <2>2. ASSUME NEW v \in Workers
          PROVE  \/ FrameFine(frame'[v], Linked, TokenTable, cids)
                 \/ FrameGoesOn(frame[v], frame'[v])
      <3>1. CASE v = w
        <4>1. frame'[v] = [Idle EXCEPT !.op = "RESTORE_DUE"]
          BY <1>0, <1>4, <3>1 DEF Reconnect, TypeOK
        <4> QED
          BY <2>1, <4>1, RestingFine
      <3>2. CASE v # w
        <4>1. frame'[v] = frame[v]
          BY <1>0, <1>4, <3>2 DEF Reconnect, TypeOK
        <4> QED
          BY <4>1, FrameGoesOnSame
      <3> QED
        BY <3>1, <3>2
    <2>3. UNCHANGED <<items, native, route, cids, registered, status,
                      lastToken>>
      BY <1>4 DEF Reconnect
    <2> QED
      BY <1>1, <2>2, <2>3
  <1>5. ASSUME RetryReturns PROVE TokensStep
    <2>1. UNCHANGED <<items, native, route, cids, registered, status,
                      lastToken>>
      BY <1>5 DEF RetryReturns
    <2>2. frame' = [frame EXCEPT ![Sweeper] = Idle]
      BY <1>5 DEF RetryReturns
    <2> QED
      BY <1>0, <1>1, <2>1, <2>2, IdleGoesOn
  <1>6. ASSUME UNCHANGED <<items, native, route, cids, registered, status,
                           lastToken, frame>>
        PROVE  TokensStep
    BY <1>1, <1>6, FrameGoesOnSame
  <1>7. ASSUME NEW g \in Groups, TimeToLivePasses(g) PROVE TokensStep
    BY <1>6, <1>7 DEF TimeToLivePasses
  <1>8. ASSUME LoseSession \/ TearDown \/ StartNative \/ UNCHANGED vars
        PROVE  TokensStep
    BY <1>6, <1>8 DEF LoseSession, TearDown, StartNative, vars
  <1> QED
    BY <1>2, <1>3, <1>4, <1>5, <1>7, <1>8

\* Only a linked group hears of its feeds.
LEMMA EventTokens ==
  ASSUME RoutingInv, TypeOK', TokensInv, NEW t \in Tokens, Event(t)
  PROVE  TokensStep
  <1>0. TypeOK /\ Owned /\ Allocated /\ lastToken \in Nat
    BY ConstantsAssumption DEF RoutingInv, TypeOK
  <1>1. /\ UNCHANGED <<items, native, route, cids, registered, lastToken, frame>>
        /\ \E new : HandleStatus(t, new)
    BY DEF Event, EventStarted, EventFailed, EventUnsubscribed, routeVars
  <1>2. ASSUME NEW g \in registered, status'[g] # status[g] PROVE g \in Linked
    <2>1. PICK i \in items[g] : i = route[t] /\ i # NoItem /\ owner[i] = g
      BY <1>0, <1>1, <1>2 DEF HandleStatus, TypeOK
    <2>2. g \in Groups /\ g # NoGroup
      BY <1>0, ConstantsAssumption DEF TypeOK
    <2>3. native[i] = t
      BY <2>1, <2>2 DEF RoutingInv, RoutedTokensAreCurrent, Located
    <2>4. ~ Down(g)
      BY <2>1, <2>3 DEF Down
    <2> QED
      BY <2>4 DEF TokensInv, LinkedOrDown
  <1>3. \A g \in registered : Active(g)' => Active(g) \/ g \in Linked
    BY <1>2 DEF Active
  <1>4. LinkedOrDown'
    <2>1. \A s \in Tokens : s <= lastToken =>
            route'[s] = IF s \in {} THEN NoItem ELSE route[s]
      BY <1>1
    <2>2. \A g \in registered' :
             /\ Active(g)' => Active(g) \/ g \in Linked
             /\ g \in Linked => \/ TokensOf(g) \cap {} = {}
                                \/ TokensOf(g) \subseteq {} /\ ~Active(g)'
      BY <1>1, <1>3
    <2> QED
      BY <1>0, <1>1, <2>1, <2>2, LinkedOrDownKept
  <1>5. RoutesAllocated'
    BY <1>0, <1>1, RoutesAllocatedKept DEF TokensInv
  <1>6. \A v \in Workers : FrameGoesOn(frame[v], frame'[v])
    BY <1>1, FrameGoesOnSame
  <1>7. lastToken <= lastToken' /\ registered' \subseteq registered
        /\ \A s \in Tokens : s <= lastToken => route'[s] \in {NoItem, route[s]}
    BY <1>0, <1>1
  <1> QED
    BY <1>0, <1>1, <1>4, <1>5, <1>6, <1>7, TokensKept DEF TokensInv, TokensStep

-----------------------------------------------------------------------------
(* The steps that take out correlation ids and routes, and those that add  *)
(* new ones for nobody yet.                                                *)

\* The correlation ids of one group, or of none, go, and no resubscription in
\* progress loses one.
LEMMA CidsTaken ==
  ASSUME TypeOK, TokensInv, Prospective, NEW T, AllOrNone(Linked, TokenTable, T),
         NEW w \in Workers, frame[w].op # "RESUBSCRIBE" \/ frame'[w] = Idle
                            \/ frame'[w].op = "ROLLBACK",
         \/ \A t \in T : t \in pending \/ \E g \in Groups : t \in TokensOf(g)
         \/ T \subseteq frame[w].tokens /\ frame[w].op = "RESUBSCRIBE",
         cids' = cids \ Asks(T)
  PROVE  /\ AllOrNone(Linked, TokenTable, cids')
         /\ AllOrNone(Linked, TokenTable, Asks(T))
         /\ \A v \in Workers \ {w} : frame[v].op = "RESUBSCRIBE" =>
              frame[v].tokens \cap cids \subseteq cids'
  <1>1. Asks(T) = {} \/ Asks(T) = T \cap cids
    BY DEF Asks
  <1>2. AllOrNone(Linked, TokenTable, {})
    BY DEF AllOrNone
  <1>3. AllOrNone(Linked, TokenTable, Asks(T))
    BY <1>1, <1>2, WholeLess DEF TokensInv
  <1>4. AllOrNone(Linked, TokenTable, cids')
    BY <1>3, WholeLess DEF TokensInv
  <1>5. ASSUME NEW v \in Workers \ {w}, frame[v].op = "RESUBSCRIBE"
        PROVE  frame[v].tokens \cap Asks(T) = {}
    <2>1. \A t \in frame[v].tokens :
            /\ t \notin pending
            /\ \A g \in Groups : t \notin TokensOf(g)
            /\ t \notin frame[w].tokens
      BY <1>5 DEF Prospective, TokensOf
    <2> QED
      BY <1>1, <2>1
  <1> QED
    BY <1>3, <1>4, <1>5

\* cancel and expire up to the native call, or to the end without one.
LEMMA UnsubscribesTokens ==
  ASSUME RoutingInv, TypeOK', TokensInv, NEW w \in Workers,
         NEW op \in {"CANCEL", "EXPIRE"},
         NEW g \in Groups, NEW final \in EndedStatuses,
         Unsubscribes(w, op, g, final)
  PROVE  TokensStep
  <1> DEFINE T == TokensOf(g)
             f == Calling(op, g, T, Asks(T), {})
  <1>0. /\ TypeOK /\ Owned /\ Allocated /\ Prospective /\ Distinct
        /\ lastToken \in Nat
    BY ConstantsAssumption DEF RoutingInv, TypeOK, TokensInv
  <1>1. /\ UNCHANGED <<items, native, registered, lastToken>>
        /\ cids' = cids \ Asks(T) /\ frame[w] = Idle
    BY DEF Unsubscribes
  <1>2. frame[w].op = "IDLE"
    BY <1>1 DEF Idle, Frame
  <1>3. OnlyOf(Linked, TokenTable, g, T) /\ AllOrNone(Linked, TokenTable, T)
    BY <1>0, OwnTokensOnly, OnlyOfWhole
  <1>4. /\ AllOrNone(Linked, TokenTable, cids')
        /\ AllOrNone(Linked, TokenTable, Asks(T))
        /\ \A v \in Workers \ {w} : frame[v].op = "RESUBSCRIBE" =>
             frame[v].tokens \cap cids \subseteq cids'
    BY <1>0, <1>1, <1>2, <1>3, CidsTaken
  <1>5. FrameFine(f, Linked, TokenTable, cids')
    <2>1. /\ f.op = op /\ f.group = g /\ f.tokens = T /\ f.asked = Asks(T)
      BY DEF Calling, Frame
    <2>2. Asks(T) \subseteq T
      BY DEF Asks
    <2> QED
      BY <1>3, <1>4, <2>1, <2>2 DEF FrameFine
  <1>6. ASSUME NEW v \in Workers
        PROVE  \/ FrameFine(frame'[v], Linked, TokenTable, cids')
               \/ /\ FrameGoesOn(frame[v], frame'[v])
                  /\ frame'[v].op = "RESUBSCRIBE" =>
                       frame[v].tokens \cap cids \subseteq cids'
    <2>0. frame' = frame \/ frame' = [frame EXCEPT ![w] = f]
      BY DEF Unsubscribes
    <2> HIDE DEF f
    <2>1. frame'[v] = frame[v] \/ (v = w /\ frame'[v] = f)
      <3>1. DOMAIN frame = Workers
        BY <1>0 DEF TypeOK
      <3> QED
        BY <2>0, <3>1
    <2>2. v = w => frame[v].op # "RESUBSCRIBE"
      BY <1>2
    <2> QED
      BY <1>4, <1>5, <2>1, <2>2, FrameGoesOnSame
  <1>7. \A h \in Groups \ {g} : status'[h] = status[h]
    BY <1>0 DEF Unsubscribes, Ends, TypeOK
  <1>8. CASE UNCHANGED <<route, status>>
    <2>1. LinkedOrDown'
      BY <1>0, <1>1, <1>8, LinkedOrDownSame DEF Active
    <2>2. RoutesAllocated'
      BY <1>0, <1>1, <1>8, RoutesAllocatedKept DEF TokensInv
    <2>3. lastToken <= lastToken' /\ registered' \subseteq registered
          /\ \A s \in Tokens : s <= lastToken => route'[s] \in {NoItem, route[s]}
      BY <1>0, <1>1, <1>8
    <2> QED
      BY <1>0, <1>1, <1>4, <1>6, <2>1, <2>2, <2>3, TokensKept DEF TokensStep
  <1>9. CASE Ends(g, T, final)
    <2>1. route' = Unrouted(T) /\ status'[g] = final
      BY <1>0, <1>9 DEF Ends, TypeOK
    <2>2. ~Active(g)'
      BY <2>1 DEF Active, ActiveStatuses, EndedStatuses
    <2>3. \A s \in Tokens : route'[s] = IF s \in T THEN NoItem ELSE route[s]
      BY <2>1 DEF Unrouted
    <2>4. \A h \in registered' :
             /\ Active(h)' => Active(h) \/ h \in Linked
             /\ h \in Linked => \/ TokensOf(h) \cap T = {}
                                \/ TokensOf(h) \subseteq T /\ ~Active(h)'
      <3>1. registered' \subseteq Groups
        BY DEF TypeOK
      <3>2. \A h \in Groups \ {g} : Active(h)' => Active(h)
        BY <1>7 DEF Active
      <3>3. \A h \in Groups \ {g} : TokensOf(h) \cap T = {}
        BY <1>0, OwnTokensOnly
      <3> QED
        BY <2>2, <3>1, <3>2, <3>3
    <2> HIDE DEF T
    <2>5. LinkedOrDown'
      BY <1>0, <1>1, <2>3, <2>4, LinkedOrDownKept
    <2>6. RoutesAllocated'
      BY <1>0, <1>1, <2>3, RoutesAllocatedKept DEF TokensInv
    <2>7. lastToken <= lastToken' /\ registered' \subseteq registered
          /\ \A s \in Tokens : s <= lastToken => route'[s] \in {NoItem, route[s]}
      BY <1>0, <1>1, <2>3
    <2> QED
      BY <1>0, <1>1, <1>4, <1>6, <2>5, <2>6, <2>7, TokensKept DEF TokensStep
  <1> QED
    BY <1>8, <1>9 DEF Unsubscribes

\* A coroutine that comes back from its call, takes out the routes it holds and
\* goes idle: all those of its group, which is then not active or not
\* registered, or none.
LEMMA UnroutesTokens ==
  ASSUME RoutingInv, TypeOK', TokensInv, NEW w \in Workers,
         UNCHANGED <<items, native, lastToken, cids>>,
         registered' \subseteq registered,
         frame' = [frame EXCEPT ![w] = Idle],
         route' = Unrouted(frame[w].tokens),
         \A h \in registered' : Active(h)' => Active(h),
         \/ Apart(Linked, TokenTable, frame[w].tokens)
         \/ /\ OnlyOf(Linked, TokenTable, frame[w].group, frame[w].tokens)
            /\ \A h \in registered' : h = frame[w].group => ~Active(h)'
  PROVE  TokensStep
  <1> DEFINE T == frame[w].tokens
  <1>0. TypeOK /\ Owned /\ Allocated /\ lastToken \in Nat
    BY ConstantsAssumption DEF RoutingInv, TypeOK
  <1>1. \A s \in Tokens : route'[s] = IF s \in T THEN NoItem ELSE route[s]
    BY DEF Unrouted
  <1>2. \A h \in registered' :
             /\ Active(h)' => Active(h) \/ h \in Linked
             /\ h \in Linked => \/ TokensOf(h) \cap T = {}
                                \/ TokensOf(h) \subseteq T /\ ~Active(h)'
    <2>1. \A h \in registered' : h \in Groups
      BY DEF TypeOK
    <2> QED
      BY <2>1, TokenTableIs DEF OnlyOf, Apart
  <1> HIDE DEF T
  <1>3. LinkedOrDown'
    BY <1>0, <1>1, <1>2, LinkedOrDownKept
  <1>4. RoutesAllocated'
    BY <1>0, <1>1, RoutesAllocatedKept DEF TokensInv
  <1>5. lastToken <= lastToken'
        /\ \A s \in Tokens : s <= lastToken => route'[s] \in {NoItem, route[s]}
    BY <1>0, <1>1
  <1>6. \A v \in Workers : \/ FrameFine(frame'[v], Linked, TokenTable, cids')
                           \/ /\ FrameGoesOn(frame[v], frame'[v])
                              /\ frame'[v].op = "RESUBSCRIBE" =>
                                   frame[v].tokens \cap cids \subseteq cids'
    BY <1>0, IdleGoesOn, FrameGoesOnSame
  <1>7. AllOrNone(Linked, TokenTable, cids')
    BY DEF TokensInv
  <1> QED
    BY <1>0, <1>3, <1>4, <1>5, <1>6, <1>7, TokensKept DEF TokensStep

\* The tokens of a resubscription in progress are no group's.
LEMMA ProspectiveApart ==
  ASSUME RoutingInv, NEW w \in Workers, frame[w].op = "RESUBSCRIBE"
  PROVE  Apart(Linked, TokenTable, frame[w].tokens)
  <1>1. Linked \subseteq Groups
    BY DEF Linked, RoutingInv, TypeOK
  <1>2. \A g \in Groups : TokenTable[g] \cap frame[w].tokens = {}
    BY TokenTableIs DEF RoutingInv, Prospective, TokensOf
  <1> QED
    BY <1>1, <1>2 DEF Apart

LEMMA ApartWhole ==
  ASSUME NEW L, NEW H, NEW T, Apart(L, H, T) PROVE AllOrNone(L, H, T)
  BY DEF AllOrNone, Apart

LEMMA UnsubscribedTokens ==
  ASSUME RoutingInv, TypeOK', TokensInv, NEW w \in Workers,
         NEW op \in {"CANCEL", "EXPIRE"}, NEW final \in EndedStatuses,
         Unsubscribed(w, op, final)
  PROVE  TokensStep
  <1>0. TypeOK
    BY DEF RoutingInv
  <1>1. /\ UNCHANGED <<items, native, lastToken, cids, registered>>
        /\ frame' = [frame EXCEPT ![w] = Idle]
        /\ route' = Unrouted(frame[w].tokens)
        /\ status' = [status EXCEPT ![frame[w].group] = final]
        /\ frame[w].op = op
    BY DEF Unsubscribed, FailedTokens, Ends, Returned
  <1>2. OnlyOf(Linked, TokenTable, frame[w].group, frame[w].tokens)
    BY <1>1 DEF TokensInv, FrameFine
  <1>3. \A h \in Groups :
          IF h = frame[w].group THEN ~Active(h)' ELSE Active(h)' => Active(h)
    BY <1>0, <1>1 DEF Active, ActiveStatuses, EndedStatuses, TypeOK
  <1>4. registered' \subseteq Groups /\ registered' \subseteq registered
    BY <1>1 DEF TypeOK
  <1> QED
    BY <1>1, <1>2, <1>3, <1>4, UnroutesTokens

LEMMA CreateReturnsTokens ==
  ASSUME RoutingInv, TypeOK', TokensInv, NEW w \in Callers, CreateReturns(w)
  PROVE  TokensStep
  <1>0. TypeOK /\ Owned /\ Allocated /\ w \in Workers /\ lastToken \in Nat
    BY ConstantsAssumption DEF RoutingInv, Workers, TypeOK
  <1>1. /\ UNCHANGED <<items, native, lastToken, cids, status>>
        /\ frame' = [frame EXCEPT ![w] = Idle]
        /\ frame[w].op = "CREATE"
    BY DEF CreateReturns, Returned, itemVars
  <1>2. CASE UNCHANGED <<registered, route>>
    <2>1. \A v \in Workers : \/ FrameFine(frame'[v], Linked, TokenTable, cids)
                             \/ FrameGoesOn(frame[v], frame'[v])
      BY <1>0, <1>1, IdleGoesOn
    <2>2. registered' \subseteq registered /\ lastToken <= lastToken'
          /\ \A g \in registered' : Active(g)' => Active(g)
      BY <1>0, <1>1, <1>2 DEF Active
    <2> QED
      BY <1>0, <1>1, <1>2, <2>1, <2>2, QuietTokens DEF TokensStep
  <1>3. CASE /\ registered' = registered \ {frame[w].group}
             /\ route' = Unrouted(frame[w].tokens)
    <2>1. OnlyOf(Linked, TokenTable, frame[w].group, frame[w].tokens)
      BY <1>0, <1>1 DEF TokensInv, FrameFine
    <2>2. /\ registered' \subseteq registered
          /\ \A h \in registered' : h # frame[w].group
          /\ \A h \in registered' : Active(h)' => Active(h)
      BY <1>1, <1>3 DEF Active
    <2> QED
      BY <1>0, <1>1, <1>3, <2>1, <2>2, UnroutesTokens
  <1> QED
    BY <1>2, <1>3 DEF CreateReturns

LEMMA RollbackReturnsTokens ==
  ASSUME RoutingInv, TypeOK', TokensInv, NEW w \in Callers, RollbackReturns(w)
  PROVE  TokensStep
  <1>0. w \in Workers
    BY DEF Workers
  <1>1. /\ UNCHANGED <<items, native, lastToken, cids, status, registered>>
        /\ frame' = [frame EXCEPT ![w] = Idle]
        /\ route' = Unrouted(frame[w].tokens)
        /\ frame[w].op = "ROLLBACK"
    BY DEF RollbackReturns, Returned, itemVars, groupVars
  <1>2. Apart(Linked, TokenTable, frame[w].tokens)
    BY <1>0, <1>1 DEF TokensInv, FrameFine
  <1>3. registered' \subseteq registered
        /\ \A h \in registered' : Active(h)' => Active(h)
    BY <1>1 DEF Active
  <1> QED
    BY <1>0, <1>1, <1>2, <1>3, UnroutesTokens

LEMMA ResubscribeFailsTokens ==
  ASSUME RoutingInv, TypeOK', TokensInv, NEW w \in Callers, ResubscribeFails(w)
  PROVE  TokensStep
  <1> DEFINE T == frame[w].tokens
             f == Calling("ROLLBACK", frame[w].group, T, Asks(T), {})
  <1>0. /\ TypeOK /\ Owned /\ Allocated /\ Prospective /\ w \in Workers
        /\ lastToken \in Nat
    BY ConstantsAssumption DEF RoutingInv, Workers, TypeOK
  <1>1. /\ UNCHANGED <<items, native, lastToken, status, registered>>
        /\ frame[w].op = "RESUBSCRIBE"
        /\ cids' = cids \ Asks(T)
    BY DEF ResubscribeFails, Returned, itemVars, groupVars
  <1>2. Apart(Linked, TokenTable, T)
    BY <1>0, <1>1, ProspectiveApart
  <1>3. CASE /\ Asks(T) = {} /\ frame' = [frame EXCEPT ![w] = Idle]
             /\ route' = Unrouted(T)
    <2>1. registered' \subseteq registered
          /\ \A h \in registered' : Active(h)' => Active(h)
      BY <1>1 DEF Active
    <2>2. cids' = cids
      BY <1>1, <1>3
    <2> QED
      BY <1>0, <1>1, <1>2, <1>3, <2>1, <2>2, UnroutesTokens
  <1>4. CASE frame' = [frame EXCEPT ![w] = f] /\ UNCHANGED route
    <2>1. frame'[w] = f /\ \A v \in Workers \ {w} : frame'[v] = frame[v]
      BY <1>0, <1>4 DEF TypeOK
    <2>2. /\ f.op = "ROLLBACK" /\ f.tokens = T /\ f.asked = Asks(T)
          /\ Asks(T) \subseteq T
      BY DEF Calling, Frame, Asks
    <2>3. AllOrNone(Linked, TokenTable, T)
      BY <1>2, ApartWhole
    <2> HIDE DEF f
    <2>4. /\ AllOrNone(Linked, TokenTable, cids')
          /\ AllOrNone(Linked, TokenTable, Asks(T))
          /\ \A v \in Workers \ {w} : frame[v].op = "RESUBSCRIBE" =>
               frame[v].tokens \cap cids \subseteq cids'
      BY <1>0, <1>1, <2>1, <2>2, <2>3, CidsTaken
    <2>5. FrameFine(f, Linked, TokenTable, cids')
      BY <1>2, <2>2, <2>4 DEF FrameFine
    <2>6. \A v \in Workers :
            \/ FrameFine(frame'[v], Linked, TokenTable, cids')
            \/ /\ FrameGoesOn(frame[v], frame'[v])
               /\ frame'[v].op = "RESUBSCRIBE" =>
                    frame[v].tokens \cap cids \subseteq cids'
      BY <2>1, <2>4, <2>5, FrameGoesOnSame
    <2>7. LinkedOrDown'
      BY <1>0, <1>1, <1>4, LinkedOrDownSame DEF Active
    <2>8. RoutesAllocated'
      BY <1>0, <1>1, <1>4, RoutesAllocatedKept DEF TokensInv
    <2>9. lastToken <= lastToken' /\ registered' \subseteq registered
          /\ \A s \in Tokens : s <= lastToken => route'[s] \in {NoItem, route[s]}
      BY <1>0, <1>1, <1>4
    <2> QED
      BY <1>0, <1>1, <2>4, <2>6, <2>7, <2>8, <2>9, TokensKept DEF TokensStep
  <1> QED
    BY <1>3, <1>4 DEF ResubscribeFails

LEMMA RetryBeginsTokens ==
  ASSUME RoutingInv, TypeOK', TokensInv, NEW t \in Tokens, RetryBegins(t)
  PROVE  TokensStep
  <1> DEFINE f == Calling("RETRY", NoGroup, {t}, Asks({t}), {})
  <1>0. /\ TypeOK /\ Owned /\ Allocated /\ Prospective /\ Sweeper \in Workers
        /\ lastToken \in Nat
    BY ConstantsAssumption DEF RoutingInv, Workers, TypeOK
  <1>1. /\ UNCHANGED <<items, native, lastToken, status, registered, route>>
        /\ frame[Sweeper].op = "IDLE" /\ t \in pending
        /\ cids' = cids \ Asks({t})
    BY DEF RetryBegins, Idle, Frame, itemVars, groupVars, routeVars
  <1>2. AllOrNone(Linked, TokenTable, {t})
    <2>1. route[t] = NoItem
      BY <1>1 DEF RoutingInv, PendingAreRetired
    <2> QED
      BY <1>0, <2>1, UnroutedApart, ApartWhole
  <1>3. /\ AllOrNone(Linked, TokenTable, cids')
        /\ AllOrNone(Linked, TokenTable, Asks({t}))
        /\ \A v \in Workers \ {Sweeper} : frame[v].op = "RESUBSCRIBE" =>
             frame[v].tokens \cap cids \subseteq cids'
    BY <1>0, <1>1, <1>2, CidsTaken
  <1>4. FrameFine(f, Linked, TokenTable, cids')
    BY <1>3 DEF FrameFine, Calling, Frame, Asks
  <1>5. frame' = frame \/ frame' = [frame EXCEPT ![Sweeper] = f]
    BY DEF RetryBegins
  <1> HIDE DEF f
  <1>6. ASSUME NEW v \in Workers
        PROVE  \/ FrameFine(frame'[v], Linked, TokenTable, cids')
               \/ /\ FrameGoesOn(frame[v], frame'[v])
                  /\ frame'[v].op = "RESUBSCRIBE" =>
                       frame[v].tokens \cap cids \subseteq cids'
    <2>1. frame'[v] = frame[v] \/ (v = Sweeper /\ frame'[v] = f)
      <3>1. DOMAIN frame = Workers
        BY <1>0 DEF TypeOK
      <3> QED
        BY <1>5, <3>1
    <2>2. v = Sweeper => frame[v].op # "RESUBSCRIBE"
      BY <1>1
    <2> QED
      BY <1>3, <1>4, <2>1, <2>2, FrameGoesOnSame
  <1>7. LinkedOrDown'
    BY <1>0, <1>1, LinkedOrDownSame DEF Active
  <1>8. RoutesAllocated'
    BY <1>0, <1>1, RoutesAllocatedKept DEF TokensInv
  <1>9. lastToken <= lastToken' /\ registered' \subseteq registered
        /\ \A s \in Tokens : s <= lastToken => route'[s] \in {NoItem, route[s]}
    BY <1>0, <1>1
  <1> QED
    BY <1>0, <1>1, <1>3, <1>6, <1>7, <1>8, <1>9, TokensKept DEF TokensStep

\* Tokens that no item has yet.
LEMMA FreshApart ==
  ASSUME TypeOK, Allocated, NEW n \in ItemCounts, lastToken + n <= MaxToken
  PROVE  /\ Apart(Linked, TokenTable, Fresh(n))
         /\ \A g \in Groups : TokensOf(g) \cap Fresh(n) = {}
         /\ \A v \in Workers : frame[v].tokens \cap Fresh(n) = {}
  <1>1. \A t \in Fresh(n) : t \in Nat /\ lastToken < t
    BY FreshTyped
  <1>2. lastToken \in Nat /\ Linked \subseteq Groups
    BY ConstantsAssumption DEF TypeOK, Linked
  <1>3. \A g \in Groups : \A t \in TokensOf(g) : t <= lastToken
    BY DEF Allocated, TokensOf
  <1>4. \A v \in Workers : \A t \in frame[v].tokens : t <= lastToken
    BY DEF Allocated
  <1>5. \A t \in Fresh(n) : ~(t <= lastToken)
    BY <1>1, <1>2
  <1>6. \A g \in Groups : TokensOf(g) \cap Fresh(n) = {}
    BY <1>3, <1>5
  <1>7. \A v \in Workers : frame[v].tokens \cap Fresh(n) = {}
    BY <1>4, <1>5
  <1> QED
    BY <1>2, <1>6, <1>7, TokenTableIs DEF Apart

LEMMA ResubscribeBeginsTokens ==
  ASSUME RoutingInv, TypeOK', TokensInv, NEW w \in Callers, NEW g \in Groups,
         NEW n \in ItemCounts, ResubscribeBegins(w, g, n)
  PROVE  TokensStep
  <1> DEFINE f == Calling("RESUBSCRIBE", g, Fresh(n), Fresh(n), {})
  <1>0. /\ TypeOK /\ Owned /\ Allocated /\ w \in Workers
        /\ lastToken \in Nat /\ n \in Nat
    BY ConstantsAssumption DEF RoutingInv, Workers, TypeOK
  <1>1. /\ UNCHANGED <<items, native, status, registered, route>>
        /\ lastToken + n <= MaxToken /\ lastToken' = lastToken + n
        /\ \/ cids' = cids \cup Fresh(n) /\ frame' = [frame EXCEPT ![w] = f]
           \/ UNCHANGED <<cids, frame>>
    BY DEF ResubscribeBegins, itemVars, groupVars, routeVars
  <1>2. Apart(Linked, TokenTable, Fresh(n))
    BY <1>0, <1>1, FreshApart
  <1>3. AllOrNone(Linked, TokenTable, cids')
    BY <1>1, <1>2 DEF Apart, AllOrNone, TokensInv
  <1>4. FrameFine(f, Linked, TokenTable, cids \cup Fresh(n))
    BY <1>2, ApartWhole DEF FrameFine, Calling, Frame
  <1> HIDE DEF f
  <1>5. ASSUME NEW v \in Workers
        PROVE  \/ FrameFine(frame'[v], Linked, TokenTable, cids')
               \/ /\ FrameGoesOn(frame[v], frame'[v])
                  /\ frame'[v].op = "RESUBSCRIBE" =>
                       frame[v].tokens \cap cids \subseteq cids'
    <2>1. DOMAIN frame = Workers
      BY <1>0 DEF TypeOK
    <2>2. \/ frame'[v] = frame[v] /\ cids \subseteq cids'
          \/ frame'[v] = f /\ cids' = cids \cup Fresh(n)
      BY <1>1, <2>1
    <2> QED
      BY <1>4, <2>2, FrameGoesOnSame
  <1>7. LinkedOrDown'
    BY <1>0, <1>1, LinkedOrDownSame DEF Active
  <1>8. lastToken <= lastToken' /\ registered' \subseteq registered
        /\ \A s \in Tokens : s <= lastToken => route'[s] \in {NoItem, route[s]}
    BY <1>0, <1>1
  <1>9. RoutesAllocated'
    <2>1. lastToken' \in Nat /\ \A s \in Tokens : route'[s] \in {NoItem, route[s]}
      BY <1>0, <1>1
    <2> QED
      BY <1>0, <1>8, <2>1, RoutesAllocatedKept DEF TokensInv
  <1> QED
    BY <1>0, <1>1, <1>3, <1>5, <1>7, <1>8, <1>9, TokensKept DEF TokensStep

\* Routes that a refused create leaves lead to no group.
LEMMA CreateInvalidTokens ==
  ASSUME RoutingInv, TypeOK', TokensInv, NEW w \in Callers,
         NEW n \in ItemCounts, CreateInvalid(w, n)
  PROVE  TokensStep
  <1>0. /\ TypeOK /\ Owned /\ Allocated /\ lastToken \in Nat /\ n \in Nat
    BY ConstantsAssumption DEF RoutingInv, TypeOK
  <1>1. /\ UNCHANGED <<items, native, status, registered, cids, frame>>
        /\ lastToken + n <= MaxToken /\ lastToken' = lastToken + n
        /\ route' = [t \in Tokens |-> IF t \in Fresh(n) THEN t ELSE route[t]]
    BY DEF CreateInvalid, itemVars, groupVars
  <1>2. \A t \in Fresh(n) : t \in Nat /\ lastToken < t /\ t <= lastToken'
    BY <1>0, <1>1 DEF Fresh
  <1>3. \A t \in Tokens : t <= lastToken => route'[t] = route[t]
    BY <1>0, <1>1, <1>2 DEF Tokens
  <1>4. LinkedOrDown'
    <2>1. \A t \in Tokens : t <= lastToken =>
            route'[t] = IF t \in {} THEN NoItem ELSE route[t]
      BY <1>3
    <2>2. \A g \in registered' :
             /\ Active(g)' => Active(g) \/ g \in Linked
             /\ g \in Linked => \/ TokensOf(g) \cap {} = {}
                                \/ TokensOf(g) \subseteq {} /\ ~Active(g)'
      BY <1>1 DEF Active
    <2> QED
      BY <1>0, <1>1, <2>1, <2>2, LinkedOrDownKept
  <1>5. RoutesAllocated'
    <2>1. \A t \in Tokens : t <= lastToken => t <= lastToken'
      BY <1>0, <1>1 DEF Tokens
    <2> QED
      BY <1>1, <1>2, <2>1 DEF RoutesAllocated, TokensInv
  <1>6. \A v \in Workers : FrameGoesOn(frame[v], frame'[v])
    BY <1>1, FrameGoesOnSame
  <1>7. lastToken <= lastToken' /\ registered' \subseteq registered
        /\ \A s \in Tokens : s <= lastToken => route'[s] \in {NoItem, route[s]}
    BY <1>0, <1>1, <1>3
  <1> QED
    BY <1>0, <1>1, <1>4, <1>5, <1>6, <1>7, TokensKept DEF TokensInv, TokensStep

-----------------------------------------------------------------------------
(* The steps that give items their tokens.                                 *)

\* The groups that are linked after a step were so before, with the same
\* tokens, or have tokens of X only.
LinkedOrMoved(X) ==
  \A h \in Linked' : \/ h \in Linked /\ TokenTable'[h] = TokenTable[h]
                     \/ TokenTable'[h] \subseteq X

NewTokens == {t \in Tokens : lastToken < t}

\* The groups N get tokens that no other coroutine holds, and all of them are
\* in the table of correlation ids.
LEMMA TokensMoved ==
  ASSUME TypeOK, TypeOK', TokensInv, NEW w \in Workers, NEW N \in SUBSET Groups,
         \A h \in Groups \ N : /\ TokenTable'[h] = TokenTable[h]
                               /\ h \in Linked' => h \in Linked
                               /\ TokenTable[h] \cap (cids' \ cids) = {},
         \A h \in N \cap Linked' :
           /\ \A v \in Workers \ {w} : TokenTable'[h] \cap frame[v].tokens = {}
           /\ TokenTable'[h] \subseteq cids',
         cids \subseteq cids',
         \A v \in Workers \ {w} : frame'[v] = frame[v],
         FrameFine(frame'[w], Linked', TokenTable', cids'),
         Distinct', RoutesAllocated', LinkedOrDown'
  PROVE  TokensInv'
  <1> USE DEF TokensInv
  <1>0. Linked' \subseteq Groups
    BY DEF Linked, TypeOK
  <1>1. AllOrNone(Linked', TokenTable', cids')
    <2> SUFFICES ASSUME NEW h \in Linked'
                 PROVE  TokenTable'[h] \subseteq cids'
                        \/ TokenTable'[h] \cap cids' = {}
      BY DEF AllOrNone
    <2>1. CASE h \in N
      BY <2>1
    <2>2. CASE h \notin N
      <3>1. /\ h \in Linked /\ TokenTable'[h] = TokenTable[h]
            /\ TokenTable[h] \cap (cids' \ cids) = {}
        BY <1>0, <2>2
      <3>2. TokenTable[h] \subseteq cids \/ TokenTable[h] \cap cids = {}
        BY <3>1 DEF AllOrNone
      <3> QED
        BY <3>1, <3>2
    <2> QED
      BY <2>1, <2>2
  <1>2. ASSUME NEW v \in Workers \ {w}
        PROVE  FrameFine(frame'[v], Linked', TokenTable', cids')
    <2>1. /\ FrameFine(frame[v], Linked, TokenTable, cids)
          /\ FrameGoesOn(frame[v], frame'[v])
      BY FrameGoesOnSame
    <2>2. \A h \in Linked' : \/ h \in Linked /\ TokenTable'[h] = TokenTable[h]
                             \/ TokenTable'[h] \cap frame[v].tokens = {}
      BY <1>0
    <2>3. frame'[v].op = "RESUBSCRIBE" =>
            frame[v].tokens \cap cids \subseteq cids'
      OBVIOUS
    <2> QED
      BY <2>1, <2>2, <2>3, FrameKept
  <1>3. \A v \in Workers : FrameFine(frame'[v], Linked', TokenTable', cids')
    BY <1>2
  <1> QED
    BY <1>1, <1>3

\* New items of one group: the group is linked, and the others stay as they
\* were.
LEMMA NewItemsLinked ==
  ASSUME RoutingInv, TokensInv, TypeOK', NEW g \in Groups,
         NEW T \in SUBSET Tokens, NEW gen,
         NewItems(g, T), RouteNew(T, TokensOf(g), gen),
         \A t \in T : \A h \in Groups : \A i \in items[h] :
           i # t /\ native[i] # t,
         registered' \subseteq registered \cup {g},
         \A h \in Groups \ {g} : status'[h] = status[h]
  PROVE  /\ Distinct' /\ LinkedOrDown'
         /\ TokenTable'[g] = T
         /\ \A h \in Groups \ {g} : /\ TokenTable'[h] = TokenTable[h]
                                    /\ h \in Linked' => h \in Linked
  <1>0. TypeOK /\ Owned /\ Distinct /\ LinkedOrDown
    BY DEF RoutingInv, TokensInv
  <1>1. \A h \in Groups : items[h] \subseteq Tokens /\ items[h] \cap T = {}
    BY <1>0 DEF TypeOK
  <1>2. /\ items'[g] = T
        /\ \A h \in Groups \ {g} : items'[h] = items[h]
        /\ \A i \in T : native'[i] = i
        /\ \A i \in Tokens \ T : native'[i] = native[i]
    BY <1>0 DEF NewItems, TypeOK
  <1>3. \A h \in Groups \ {g} : \A i \in items'[h] :
          i \in items[h] /\ native'[i] = native[i]
    BY <1>1, <1>2
  <1>4. /\ TokenTable'[g] = T
        /\ \A h \in Groups \ {g} : TokenTable'[h] = TokenTable[h]
    <2>1. \A h \in Groups : TokenTable'[h] = {native'[i] : i \in items'[h]}
      BY DEF TokenTable, TokensOf
    <2>2. TokenTable'[g] = T
      BY <1>2, <2>1
    <2>3. ASSUME NEW h \in Groups \ {g} PROVE TokenTable'[h] = TokenTable[h]
      <3>1. items'[h] = items[h] /\ \A i \in items[h] : native'[i] = native[i]
        BY <1>2, <1>3
      <3>2. {native'[i] : i \in items'[h]} = {native[i] : i \in items[h]}
        BY <3>1
      <3> QED
        BY <2>1, <3>2, TokenTableIs DEF TokensOf
    <2> QED
      BY <2>2, <2>3
  <1>5. ASSUME NEW h \in Groups \ {g}, NEW i \in items[h]
        PROVE  route'[native[i]] = route[native[i]]
    <2>1. native[i] \in Tokens /\ native[i] \notin T
      BY <1>0 DEF Owned
    <2>2. native[i] \in TokensOf(h)
      BY DEF TokensOf
    <2>3. native[i] \notin TokensOf(g)
      BY <1>0, <2>2, OwnTokensOnly
    <2> QED
      BY <2>1, <2>3 DEF RouteNew, Unrouted
  <1>6. \A i \in T : route'[native'[i]] = i
    BY <1>2 DEF RouteNew
  <1>7. \A h \in Groups \ {g} : h \in registered' => h \in registered
    OBVIOUS
  <1>8. \A h \in Groups \ {g} : h \in Linked' => h \in Linked
    BY <1>2, <1>3, <1>5, <1>7 DEF Linked
  <1>9. LinkedOrDown'
    <2> SUFFICES ASSUME NEW h \in registered' PROVE h \in Linked' \/ Down(h)'
      BY DEF LinkedOrDown
    <2>1. CASE h = g
      BY <1>2, <1>6, <2>1 DEF Linked
    <2>2. CASE h # g
      <3>1. h \in Groups /\ h \in registered
        BY <1>7, <2>2 DEF TypeOK
      <3>2. h \in Linked \/ Down(h)
        BY <1>0, <3>1 DEF LinkedOrDown
      <3>3. h \in Linked => h \in Linked'
        BY <1>2, <1>3, <1>5, <2>2, <3>1 DEF Linked
      <3>4. Down(h) => Down(h)'
        BY <1>2, <1>3, <1>5, <2>2, <3>1 DEF Down, Active
      <3> QED
        BY <3>2, <3>3, <3>4
    <2> QED
      BY <2>1, <2>2
  <1>10. Distinct'
    <2> SUFFICES ASSUME NEW a \in Groups, NEW b \in Groups,
                        NEW i \in items'[a], NEW j \in items'[b],
                        native'[i] = native'[j]
                 PROVE  i = j
      BY DEF Distinct
    <2>1. CASE a = g /\ b = g
      BY <1>2, <2>1
    <2>2. CASE a = g /\ b # g
      BY <1>2, <1>3, <2>2
    <2>3. CASE a # g /\ b = g
      BY <1>2, <1>3, <2>3
    <2>4. CASE a # g /\ b # g
      BY <1>0, <1>3, <2>4 DEF Distinct
    <2> QED
      BY <2>1, <2>2, <2>3, <2>4
  <1> QED
    BY <1>4, <1>8, <1>9, <1>10

LEMMA CreateTokens ==
  ASSUME RoutingInv, TypeOK', TokensInv, NEW w \in Callers, NEW g \in Groups,
         NEW n \in ItemCounts, CreateBegins(w, g, n)
  PROVE  TokensInv' /\ LinkedOrMoved(NewTokens)
  <1>0. /\ TypeOK /\ Owned /\ Allocated /\ UnmadeEmpty /\ w \in Workers
        /\ lastToken \in Nat /\ n \in Nat /\ RoutesAllocated
    BY ConstantsAssumption DEF RoutingInv, TokensInv, Workers, TypeOK
  <1>1. /\ status[g] = "UNMADE" /\ lastToken + n <= MaxToken
        /\ lastToken' = lastToken + n /\ lastToken <= lastToken'
    BY <1>0 DEF CreateBegins
  <1>2. CASE UNCHANGED <<registered, status, generation, items, itemVars,
                         routeVars, cids, frame>>
    <2>1. /\ UNCHANGED <<items, native, route, cids, frame>>
          /\ registered' \subseteq registered
          /\ \A h \in registered' : Active(h)' => Active(h)
      BY <1>2 DEF itemVars, routeVars, Active
    <2> QED
      BY <1>0, <1>1, <2>1, QuietTokens, FrameGoesOnSame DEF LinkedOrMoved
  <1>3. CASE session = "CONNECTED"
    <2> DEFINE T == Fresh(n)
    <2>1. /\ registered' = registered \cup {g}
          /\ status' = [status EXCEPT ![g] = "STARTING"]
          /\ NewItems(g, T) /\ RouteNew(T, {}, 1)
          /\ cids' = cids \cup T
          /\ frame' = [frame EXCEPT ![w] = Calling("CREATE", g, T, T, {})]
      BY <1>3 DEF CreateBegins
    <2>2. TokensOf(g) = {}
      BY <1>0, <1>1 DEF UnmadeEmpty, TokensOf
    <2>3. /\ T \in SUBSET Tokens
          /\ \A t \in T : t \in Nat /\ lastToken < t /\ t <= lastToken'
      BY <1>0, <1>1, FreshTyped DEF Fresh
    <2>4. /\ \A h \in Groups : TokensOf(h) \cap T = {}
          /\ \A v \in Workers : frame[v].tokens \cap T = {}
      BY <1>0, <1>1, FreshApart
    <2>5. \A t \in T : \A h \in Groups : \A i \in items[h] :
            i # t /\ native[i] # t
      BY <1>0, <2>3 DEF Allocated
    <2> HIDE DEF T
    <2>6. \A h \in Groups \ {g} : status'[h] = status[h]
      BY <1>0, <2>1 DEF TypeOK
    <2>7. /\ Distinct' /\ LinkedOrDown'
          /\ TokenTable'[g] = T
          /\ \A h \in Groups \ {g} : /\ TokenTable'[h] = TokenTable[h]
                                     /\ h \in Linked' => h \in Linked
      <3>1. RouteNew(T, TokensOf(g), 1)
        BY <2>1, <2>2
      <3> QED
        BY <2>1, <2>3, <2>5, <2>6, <3>1, NewItemsLinked
    <2>8. RoutesAllocated'
      <3>1. \A t \in Tokens : route'[t] # NoItem => t \in T \/ route[t] # NoItem
        BY <2>1 DEF RouteNew, Unrouted
      <3>2. \A t \in Tokens : t <= lastToken => t <= lastToken'
        BY <1>0, <1>1 DEF Tokens
      <3> QED
        BY <1>0, <2>3, <3>1, <3>2 DEF RoutesAllocated
    <2>9. /\ frame'[w] = Calling("CREATE", g, T, T, {})
          /\ \A v \in Workers \ {w} : frame'[v] = frame[v]
      BY <1>0, <2>1 DEF TypeOK
    <2>10. FrameFine(frame'[w], Linked', TokenTable', cids')
      <3>1. OnlyOf(Linked', TokenTable', g, T)
        <4>1. Linked' \subseteq Groups
          BY DEF Linked, TypeOK
        <4> QED
          BY <2>4, <2>7, <4>1, TokenTableIs DEF OnlyOf
      <3>2. AllOrNone(Linked', TokenTable', T)
        BY <3>1, OnlyOfWhole
      <3> QED
        BY <2>9, <3>1, <3>2 DEF FrameFine, Calling, Frame
    <2>11. \A h \in Groups \ {g} : TokenTable[h] \cap (cids' \ cids) = {}
      BY <2>1, <2>4, TokenTableIs
    <2>12. \A v \in Workers \ {w} : T \cap frame[v].tokens = {}
      BY <2>4
    <2>13. {g} \in SUBSET Groups /\ T \subseteq cids' /\ cids \subseteq cids'
      BY <2>1
    <2>14. TokensInv'
      BY <1>0, <2>7, <2>8, <2>9, <2>10, <2>11, <2>12, <2>13, TokensMoved
    <2>15. LinkedOrMoved(NewTokens)
      <3>1. T \subseteq NewTokens /\ Linked' \subseteq Groups
        BY <2>3 DEF NewTokens, Linked, TypeOK
      <3> QED
        BY <2>7, <3>1 DEF LinkedOrMoved
    <2> QED
      BY <2>14, <2>15
  <1> QED
    BY <1>2, <1>3 DEF CreateBegins

LEMMA CommitTokens ==
  ASSUME RoutingInv, TypeOK', TokensInv, NEW w \in Callers,
         ResubscribeCommits(w)
  PROVE  TokensInv' /\ LinkedOrMoved(frame[w].tokens)
  <1> DEFINE g == frame[w].group
             T == frame[w].tokens
  <1>0. /\ TypeOK /\ Owned /\ Prospective /\ Allocated /\ w \in Workers
        /\ lastToken \in Nat /\ RoutesAllocated
    BY ConstantsAssumption DEF RoutingInv, TokensInv, Workers, TypeOK
  <1>1. /\ frame[w].op = "RESUBSCRIBE"
        /\ status' = [status EXCEPT ![g] = "STARTING"]
        /\ NewItems(g, T) /\ RouteNew(T, TokensOf(g), generation[g] + 1)
        /\ frame' = [frame EXCEPT ![w] = Idle]
        /\ UNCHANGED <<registered, cids, lastToken>>
    BY DEF ResubscribeCommits, Returned
  <1>2. g \in Groups /\ T \in SUBSET Tokens /\ T \subseteq cids
    BY <1>0, <1>1 DEF Prospective, TypeOK, FrameType, TokensInv, FrameFine
  <1>3. \A t \in T : /\ \A h \in Groups : \A i \in items[h] :
                          i # t /\ native[i] # t
                     /\ \A v \in Workers \ {w} : t \notin frame[v].tokens
                     /\ t <= lastToken
    BY <1>0, <1>1 DEF Prospective, Allocated
  <1> HIDE DEF g, T
  <1>4. \A h \in Groups \ {g} : status'[h] = status[h]
    BY <1>0, <1>1 DEF TypeOK
  <1>5. /\ Distinct' /\ LinkedOrDown'
        /\ TokenTable'[g] = T
        /\ \A h \in Groups \ {g} : /\ TokenTable'[h] = TokenTable[h]
                                   /\ h \in Linked' => h \in Linked
    <2>1. registered' \subseteq registered \cup {g}
      BY <1>1
    <2> QED
      BY <1>1, <1>2, <1>3, <1>4, <2>1, NewItemsLinked
  <1>6. RoutesAllocated'
    <2>1. \A t \in Tokens : route'[t] # NoItem => t \in T \/ route[t] # NoItem
      BY <1>1 DEF RouteNew, Unrouted
    <2> QED
      BY <1>0, <1>1, <1>3, <2>1 DEF RoutesAllocated
  <1>7. frame'[w] = Idle /\ \A v \in Workers \ {w} : frame'[v] = frame[v]
    BY <1>0, <1>1 DEF TypeOK
  <1>8. FrameFine(frame'[w], Linked', TokenTable', cids')
    BY <1>7, IdleRests, RestingFine
  <1>9. \A h \in Groups \ {g} : TokenTable[h] \cap (cids' \ cids) = {}
    BY <1>1
  <1>10. \A v \in Workers \ {w} : T \cap frame[v].tokens = {}
    BY <1>3
  <1>11. {g} \in SUBSET Groups /\ T \subseteq cids' /\ cids \subseteq cids'
    BY <1>1, <1>2
  <1>12. \A h \in {g} \cap Linked' :
           /\ \A v \in Workers \ {w} : TokenTable'[h] \cap frame[v].tokens = {}
           /\ TokenTable'[h] \subseteq cids'
    BY <1>5, <1>10, <1>11
  <1>13. \A h \in Groups \ {g} : /\ TokenTable'[h] = TokenTable[h]
                                 /\ h \in Linked' => h \in Linked
                                 /\ TokenTable[h] \cap (cids' \ cids) = {}
    BY <1>5, <1>9
  <1>14. TokensInv'
    BY <1>0, <1>5, <1>6, <1>7, <1>8, <1>11, <1>12, <1>13, TokensMoved
  <1>15. LinkedOrMoved(T)
    <2>1. Linked' \subseteq Groups
      BY DEF Linked, TypeOK
    <2> QED
      BY <1>5, <2>1 DEF LinkedOrMoved
  <1> QED
    BY <1>14, <1>15 DEF T

\* The tokens that a renumbering gives to the items of J.
Given(fresh, J) == {fresh[i] : i \in J}

\* Of the routes, rt is left: each group outside L keeps its routes, or loses
\* them and is not active.
KeptOutside(L, rt) ==
  \A h \in registered \ L :
    /\ Active(h)' => Active(h)
    /\ \/ \A i \in items[h] : rt[native[i]] = route[native[i]]
       \/ ~Active(h)' /\ \A i \in items[h] : rt[native[i]] = NoItem

\* What comes of it: the items of L have the new tokens, and the other groups
\* their old ones.
MovedIn(L, fresh) ==
  \A g \in L : TokenTable'[g] = Given(fresh, items[g])
UnmovedOutside(L) ==
  \A h \in Groups \ L : /\ TokenTable'[h] = TokenTable[h]
                        /\ h \in Linked' => h \in Linked
EmptiedIn(L) == \A g \in L : g \in Linked' => TokenTable'[g] = {}

\* The items I of the groups L get fresh tokens, with routes or without; rt is
\* what is left of the routes as this begins.
LEMMA SwapLinked ==
  ASSUME RoutingInv, TokensInv, TypeOK',
         NEW L \in SUBSET Groups, NEW I \in SUBSET Tokens,
         \A i \in I : \E g \in L : i \in items[g],
         \A g \in L : items[g] \subseteq I,
         NEW fresh \in Renumberings(I), NEW routed \in BOOLEAN,
         NEW rt, \A t \in Tokens : rt[t] \in {NoItem, route[t]},
         SwapTokens(I, fresh, rt, routed),
         UNCHANGED <<items, registered>>,
         KeptOutside(L, rt), \A g \in L : routed \/ ~Active(g)'
  PROVE  /\ Distinct' /\ LinkedOrDown' /\ RoutesAllocated'
         /\ MovedIn(L, fresh) /\ UnmovedOutside(L)
         /\ ~routed => EmptiedIn(L)
  <1>0. /\ TypeOK /\ Owned /\ Allocated /\ Distinct /\ LinkedOrDown
        /\ RoutesAllocated /\ lastToken \in Nat /\ Cardinality(I) \in Nat
        /\ NoItem \notin Tokens
    <2>1. TypeOK /\ Owned /\ Allocated /\ Distinct /\ LinkedOrDown
          /\ RoutesAllocated
      BY DEF RoutingInv, TokensInv
    <2> QED
      BY <2>1, ItemSetsFinite, ConstantsAssumption DEF TypeOK, NoItem, Tokens
  <1>1. /\ \A i \in I : /\ fresh[i] \in Nat /\ lastToken < fresh[i]
                        /\ fresh[i] <= lastToken'
        /\ \A i, j \in I : fresh[i] = fresh[j] => i = j
        /\ lastToken <= lastToken'
    BY <1>0, RenumberingsFresh DEF SwapTokens
  <1>2. \A i \in Tokens : native'[i] = IF i \in I THEN fresh[i] ELSE native[i]
    BY DEF SwapTokens
  <1>3. \A h \in Groups : \A i \in items[h] :
          /\ i \in Tokens /\ native[i] \in Tokens /\ native[i] <= lastToken
          /\ i \in I <=> h \in L
    BY <1>0 DEF Owned, Allocated, TypeOK
  <1>4. \A h \in Groups : \A i \in items[h] :
          native'[i] = IF h \in L THEN fresh[i] ELSE native[i]
    BY <1>2, <1>3
  <1>5. ASSUME NEW h \in Groups \ L, NEW i \in items[h]
        PROVE  route'[native[i]] = rt[native[i]]
    <2>1. native[i] \notin {fresh[j] : j \in I}
      <3> SUFFICES ASSUME NEW j \in I, native[i] = fresh[j] PROVE FALSE
        OBVIOUS
      <3>1. native[i] <= lastToken /\ native[i] \in Nat
        BY <1>3 DEF Tokens
      <3> QED
        BY <1>0, <1>1, <3>1
    <2>2. native[i] \notin Retired(I)
      <3> SUFFICES ASSUME NEW j \in I, native[i] = native[j] PROVE FALSE
        BY DEF Retired
      <3>1. PICK g \in L : j \in items[g]
        OBVIOUS
      <3>2. i = j
        BY <1>0, <3>1 DEF Distinct
      <3> QED
        BY <1>3, <3>2
    <2> QED
      BY <1>3, <2>1, <2>2 DEF SwapTokens
  <1>6. ASSUME NEW i \in I
        PROVE  route'[fresh[i]] = IF routed THEN i ELSE NoItem
    <2>0. fresh[i] \in Tokens
      <3>1. PICK g \in L : i \in items[g]
        OBVIOUS
      <3>2. native'[i] = fresh[i] /\ i \in Tokens
        BY <1>2
      <3>3. native'[i] \in Tokens \cup {0}
        BY <3>2 DEF TypeOK
      <3> QED
        BY <1>0, <1>1, <3>2, <3>3
    <2>1. CASE routed
      <3>1. route'[fresh[i]] = CHOOSE j \in I : fresh[j] = fresh[i]
        BY <2>0, <2>1 DEF SwapTokens
      <3> QED
        BY <1>1, <2>1, <3>1
    <2>2. CASE ~routed
      <3>1. route'[fresh[i]] \in {NoItem, rt[fresh[i]]}
        BY <2>0, <2>2 DEF SwapTokens
      <3>2. ~(fresh[i] <= lastToken)
        BY <1>0, <1>1
      <3>3. route[fresh[i]] = NoItem
        BY <1>0, <2>0, <3>2 DEF RoutesAllocated
      <3> QED
        BY <2>0, <2>2, <3>1, <3>3
    <2> QED
      BY <2>1, <2>2
  <1>7. \A g \in L : TokenTable'[g] = Given(fresh, items[g])
    <2> TAKE g \in L
    <2>1. TokenTable'[g] = {native'[i] : i \in items[g]}
      BY DEF TokenTable, TokensOf
    <2>2. {native'[i] : i \in items[g]} = {fresh[i] : i \in items[g]}
      BY <1>4
    <2> QED
      BY <2>1, <2>2 DEF Given
  <1>8. \A h \in Groups \ L : /\ TokenTable'[h] = TokenTable[h]
                              /\ h \in Linked' => h \in Linked
    <2> TAKE h \in Groups \ L
    <2>1. TokenTable'[h] = {native'[i] : i \in items[h]}
      BY DEF TokenTable, TokensOf
    <2>2. {native'[i] : i \in items[h]} = {native[i] : i \in items[h]}
      BY <1>4
    <2>3. TokenTable'[h] = TokenTable[h]
      BY <2>1, <2>2 DEF TokenTable, TokensOf
    <2>4. ASSUME h \in Linked' PROVE h \in Linked
      <3>1. \A i \in items[h] : route'[native[i]] = i
        BY <1>4, <2>4 DEF Linked
      <3>2. \A i \in items[h] : rt[native[i]] = i /\ i # NoItem
                                /\ native[i] \in Tokens
        BY <1>0, <1>3, <1>5, <3>1
      <3>3. \A i \in items[h] : route[native[i]] = i
        BY <3>2
      <3> QED
        BY <2>4, <3>3 DEF Linked
    <2> QED
      BY <2>3, <2>4
  <1>9. \A g \in L : g \in registered => IF routed THEN g \in Linked' ELSE Down(g)'
    <2>1. \A g \in L : \A i \in items[g] :
            route'[native'[i]] = IF routed THEN i ELSE NoItem
      BY <1>4, <1>6
    <2> QED
      BY <2>1 DEF Linked, Down
  <1>10. LinkedOrDown'
    <2> SUFFICES ASSUME NEW h \in registered, h \notin L
                 PROVE  h \in Linked' \/ Down(h)'
      BY <1>9 DEF LinkedOrDown
    <2>0. /\ h \in Groups
          /\ Active(h)' => Active(h)
          /\ \/ \A i \in items[h] : rt[native[i]] = route[native[i]]
             \/ ~Active(h)' /\ \A i \in items[h] : rt[native[i]] = NoItem
      BY <1>0 DEF TypeOK, KeptOutside
    <2>1. CASE \A i \in items[h] : rt[native[i]] = route[native[i]]
      <3>1. \A i \in items[h] : route'[native'[i]] = route[native[i]]
        BY <1>4, <1>5, <2>0, <2>1
      <3>2. CASE h \in Linked
        BY <3>1, <3>2 DEF Linked
      <3>3. CASE Down(h)
        BY <2>0, <3>1, <3>3 DEF Down
      <3> QED
        BY <1>0, <3>2, <3>3 DEF LinkedOrDown
    <2>2. CASE ~Active(h)' /\ \A i \in items[h] : rt[native[i]] = NoItem
      BY <1>4, <1>5, <2>0, <2>2 DEF Down
    <2> QED
      BY <2>0, <2>1, <2>2
  <1>11. RoutesAllocated'
    <2> SUFFICES ASSUME NEW t \in Tokens, route'[t] # NoItem
                 PROVE  t <= lastToken'
      BY DEF RoutesAllocated
    <2>1. CASE t \in {fresh[i] : i \in I}
      BY <1>1, <2>1
    <2>2. CASE t \notin {fresh[i] : i \in I}
      <3>1. route[t] # NoItem
        BY <2>2 DEF SwapTokens
      <3>2. t <= lastToken /\ t \in Nat /\ lastToken' \in Nat
        BY <1>0, <3>1, ConstantsAssumption DEF RoutesAllocated, Tokens, TypeOK
      <3> QED
        BY <1>0, <1>1, <3>2
    <2> QED
      BY <2>1, <2>2
  <1>12. Distinct'
    <2> SUFFICES ASSUME NEW a \in Groups, NEW b \in Groups,
                        NEW i \in items[a], NEW j \in items[b],
                        native'[i] = native'[j]
                 PROVE  i = j
      BY DEF Distinct
    <2>1. CASE a \in L /\ b \in L
      BY <1>1, <1>3, <1>4, <2>1
    <2>2. CASE a \in L /\ b \notin L
      <3>1. fresh[i] = native[j] /\ i \in I /\ native[j] <= lastToken
        BY <1>3, <1>4, <2>2
      <3> QED
        BY <1>0, <1>1, <3>1
    <2>3. CASE a \notin L /\ b \in L
      <3>1. fresh[j] = native[i] /\ j \in I /\ native[i] <= lastToken
        BY <1>3, <1>4, <2>3
      <3> QED
        BY <1>0, <1>1, <3>1
    <2>4. CASE a \notin L /\ b \notin L
      BY <1>0, <1>4, <2>4 DEF Distinct
    <2> QED
      BY <2>1, <2>2, <2>3, <2>4
  <1>13. ASSUME ~routed, NEW g \in L, g \in Linked'
         PROVE  TokenTable'[g] = {}
    <2>1. \A i \in items[g] : route'[native'[i]] = i
      BY <1>13 DEF Linked
    <2>2. \A i \in items[g] : route'[native'[i]] = NoItem
      BY <1>4, <1>6, <1>13
    <2>3. items[g] = {}
      BY <1>0, <1>3, <2>1, <2>2
    <2> QED
      BY <1>7, <2>3 DEF Given
  <1> QED
    BY <1>7, <1>8, <1>10, <1>11, <1>12, <1>13
    DEF MovedIn, UnmovedOutside, EmptiedIn

\* What a restore goes on with, statuses st and routes rt: each group has the
\* routes it had, or none, and then it is not active.
GoesOnWith(st, rt) ==
  /\ \A t \in Tokens : rt[t] \in {NoItem, route[t]}
  /\ \A h \in registered :
       /\ st[h] \in ActiveStatuses => Active(h)
       /\ \/ \A i \in items[h] : rt[native[i]] = route[native[i]]
          \/ /\ st[h] \notin ActiveStatuses
             /\ \A i \in items[h] : rt[native[i]] = NoItem

LEMMA RestoreTokens ==
  ASSUME RoutingInv, TypeOK', TokensInv, NEW w \in Restorers,
         NEW st \in [Groups -> GroupStatuses], NEW rt, GoesOnWith(st, rt),
         NEW todo \in SUBSET Groups, RestoreGoesOn(w, st, rt, todo)
  PROVE  TokensInv' /\ LinkedOrMoved(NewTokens)
  <1> DEFINE live == {g \in todo : st[g] \in ActiveStatuses}
  <1>0. /\ TypeOK /\ Owned /\ Allocated /\ w \in Workers /\ lastToken \in Nat
        /\ UNCHANGED <<items, registered>>
        /\ registered \subseteq Groups
        /\ DOMAIN frame = Workers
    BY ConstantsAssumption
    DEF RoutingInv, Workers, TypeOK, RestoreGoesOn
  <1>1. CASE /\ status' = st /\ route' = rt
             /\ frame' = [frame EXCEPT ![w] = Idle]
             /\ UNCHANGED <<native, lastToken, cids>>
    <2>1. LinkedOrDown'
      <3> SUFFICES ASSUME NEW h \in registered PROVE h \in Linked' \/ Down(h)'
        BY <1>0 DEF LinkedOrDown
      <3>1. h \in Linked \/ Down(h)
        BY DEF TokensInv, LinkedOrDown
      <3>2. Active(h)' => Active(h)
        BY <1>1 DEF GoesOnWith, Active
      <3>3. CASE \A i \in items[h] : rt[native[i]] = route[native[i]]
        BY <1>0, <1>1, <3>1, <3>2, <3>3 DEF Linked, Down
      <3>4. CASE /\ st[h] \notin ActiveStatuses
                 /\ \A i \in items[h] : rt[native[i]] = NoItem
        BY <1>0, <1>1, <3>4 DEF Down, Active
      <3> QED
        BY <3>3, <3>4 DEF GoesOnWith
    <2>2. \A t \in Tokens : route'[t] \in {NoItem, route[t]}
      BY <1>1 DEF GoesOnWith
    <2>3. RoutesAllocated'
      BY <1>0, <1>1, <2>2, RoutesAllocatedKept DEF TokensInv
    <2>4. \A v \in Workers : \/ FrameFine(frame'[v], Linked, TokenTable, cids')
                             \/ /\ FrameGoesOn(frame[v], frame'[v])
                                /\ frame'[v].op = "RESUBSCRIBE" =>
                                     frame[v].tokens \cap cids \subseteq cids'
      BY <1>0, <1>1, IdleGoesOn, FrameGoesOnSame
    <2>5. AllOrNone(Linked, TokenTable, cids')
      BY <1>1 DEF TokensInv
    <2>6. lastToken <= lastToken'
      BY <1>0, <1>1
    <2> QED
      BY <1>0, <1>1, <2>1, <2>2, <2>3, <2>4, <2>5, <2>6, TokensKept
      DEF LinkedOrMoved
  <1>2. \A h \in registered : st[h] \in ActiveStatuses => Active(h)
    BY DEF GoesOnWith
  \* The items I of the groups L get new tokens.
  <1>3. ASSUME NEW L \in SUBSET Groups, NEW I \in SUBSET Tokens,
               \A i \in I : \E g \in L : i \in items[g],
               \A g \in L : items[g] \subseteq I,
               NEW fresh \in Renumberings(I), NEW routed \in BOOLEAN,
               SwapTokens(I, fresh, rt, routed),
               \A h \in Groups \ L : status'[h] = st[h],
               \A g \in L : routed \/ ~Active(g)'
        PROVE  /\ Distinct' /\ LinkedOrDown' /\ RoutesAllocated'
               /\ MovedIn(L, fresh) /\ UnmovedOutside(L)
               /\ ~routed => EmptiedIn(L)
               /\ \A i \in I : fresh[i] \in Nat /\ lastToken < fresh[i]
    <2>1. KeptOutside(L, rt)
      BY <1>0, <1>2, <1>3 DEF KeptOutside, GoesOnWith, Active
    <2>2. \A t \in Tokens : rt[t] \in {NoItem, route[t]}
      BY DEF GoesOnWith
    <2>3. \A i \in I : fresh[i] \in Nat /\ lastToken < fresh[i]
      BY <1>0, <1>3, RenumberingsFresh
    <2>4. UNCHANGED <<items, registered>>
      BY <1>0
    <2>5. /\ Distinct' /\ LinkedOrDown' /\ RoutesAllocated'
          /\ MovedIn(L, fresh) /\ UnmovedOutside(L)
          /\ ~routed => EmptiedIn(L)
      BY <1>3, <2>1, <2>2, <2>4, SwapLinked
    <2> QED
      BY <2>3, <2>5
  <1>4. ASSUME NEW g \in live, NEW fresh \in Renumberings(items[g]),
               status' = [st EXCEPT ![g] = "STARTING"],
               SwapTokens(items[g], fresh, rt, TRUE),
               cids' = cids \cup {fresh[i] : i \in items[g]},
               frame' = [frame EXCEPT ![w] =
                 Calling("RESTORE", g, {fresh[i] : i \in items[g]},
                         {fresh[i] : i \in items[g]}, todo \ {g})]
        PROVE  TokensInv' /\ LinkedOrMoved(NewTokens)
    <2> DEFINE new == {fresh[i] : i \in items[g]}
    <2>1. {g} \in SUBSET Groups /\ items[g] \in SUBSET Tokens /\ g \in Groups
      BY <1>0, <1>4 DEF TypeOK
    <2>2. \A h \in Groups \ {g} : status'[h] = st[h]
      BY <1>4
    <2>3. /\ Distinct' /\ LinkedOrDown' /\ RoutesAllocated'
          /\ TokenTable'[g] = new
          /\ \A h \in Groups \ {g} : /\ TokenTable'[h] = TokenTable[h]
                                     /\ h \in Linked' => h \in Linked
          /\ \A t \in new : t \in Nat /\ lastToken < t
      <3>1. /\ \A i \in items[g] : \E h \in {g} : i \in items[h]
            /\ \A h \in {g} : items[h] \subseteq items[g]
            /\ TRUE \in BOOLEAN
            /\ \A h \in {g} : TRUE \/ ~Active(h)'
        OBVIOUS
      <3>2. /\ Distinct' /\ LinkedOrDown' /\ RoutesAllocated'
            /\ MovedIn({g}, fresh) /\ UnmovedOutside({g})
            /\ \A i \in items[g] : fresh[i] \in Nat /\ lastToken < fresh[i]
        BY <1>3, <1>4, <2>1, <2>2, <3>1
      <3> QED
        BY <3>2 DEF Given, MovedIn, UnmovedOutside
    <2>4. /\ \A v \in Workers \ {w} : frame'[v] = frame[v]
          /\ frame'[w] = Calling("RESTORE", g, new, new, todo \ {g})
      BY <1>0, <1>4
    <2>5. cids' = cids \cup new
      BY <1>4
    <2> HIDE DEF new
    <2>6. \A h \in Groups : TokenTable[h] \cap new = {}
      <3>1. \A h \in Groups : \A t \in TokenTable[h] :
              t <= lastToken /\ t \in Nat
        BY <1>0, TokenTableIs DEF Allocated, TokensOf, Owned, Tokens
      <3> QED
        BY <1>0, <2>3, <3>1
    <2>7. \A v \in Workers : new \cap frame[v].tokens = {}
      <3>1. \A v \in Workers : \A t \in frame[v].tokens :
              t <= lastToken /\ t \in Nat
        BY <1>0 DEF Allocated, TypeOK, FrameType, Tokens
      <3> QED
        BY <1>0, <2>3, <3>1
    <2>8. Linked' \subseteq Groups
      BY DEF Linked, TypeOK
    <2>9. FrameFine(frame'[w], Linked', TokenTable', cids')
      <3>1. OnlyOf(Linked', TokenTable', g, new)
        BY <2>3, <2>6, <2>8 DEF OnlyOf
      <3>2. AllOrNone(Linked', TokenTable', new)
        BY <3>1, OnlyOfWhole
      <3> QED
        BY <2>4, <3>1, <3>2 DEF FrameFine, Calling, Frame
    <2>10. \A h \in {g} \cap Linked' :
             /\ \A v \in Workers \ {w} : TokenTable'[h] \cap frame[v].tokens = {}
             /\ TokenTable'[h] \subseteq cids'
      BY <2>3, <2>5, <2>7
    <2>11. \A h \in Groups \ {g} : /\ TokenTable'[h] = TokenTable[h]
                                   /\ h \in Linked' => h \in Linked
                                   /\ TokenTable[h] \cap (cids' \ cids) = {}
      BY <2>3, <2>5, <2>6
    <2>12. cids \subseteq cids'
      BY <2>5
    <2>13. TokensInv'
      BY <1>0, <2>1, <2>3, <2>4, <2>9, <2>10, <2>11, <2>12, TokensMoved
    <2>14. LinkedOrMoved(NewTokens)
      <3>1. TokenTable'[g] \subseteq NewTokens
        <4>1. new \subseteq cids'
          BY <2>5
        <4>2. cids' \subseteq Tokens
          BY DEF TypeOK
        <4> QED
          BY <2>3, <4>1, <4>2 DEF NewTokens
      <3> QED
        BY <2>3, <2>8, <3>1 DEF LinkedOrMoved
    <2> QED
      BY <2>13, <2>14
  <1>5. ASSUME NEW fresh \in Renumberings(UNION {items[g] : g \in live}),
               status' = [g \in Groups |-> IF g \in live THEN "FAILED"
                                                         ELSE st[g]],
               SwapTokens(UNION {items[g] : g \in live}, fresh, rt, FALSE),
               frame' = [frame EXCEPT ![w] = Idle], UNCHANGED cids
        PROVE  TokensInv' /\ LinkedOrMoved(NewTokens)
    <2> DEFINE I == UNION {items[g] : g \in live}
    <2>1. live \in SUBSET Groups /\ I \in SUBSET Tokens
      BY <1>0 DEF TypeOK
    <2>2. /\ \A i \in I : \E g \in live : i \in items[g]
          /\ \A g \in live : items[g] \subseteq I
      OBVIOUS
    <2>3. /\ \A h \in Groups \ live : status'[h] = st[h]
          /\ \A g \in live : ~Active(g)'
      BY <1>5, <2>1 DEF Active, ActiveStatuses
    <2>4. FALSE \in BOOLEAN
      OBVIOUS
    <2> HIDE DEF live
    <2>5. /\ Distinct' /\ LinkedOrDown' /\ RoutesAllocated'
          /\ \A h \in Groups \ live : /\ TokenTable'[h] = TokenTable[h]
                                      /\ h \in Linked' => h \in Linked
          /\ \A g \in live : g \in Linked' => TokenTable'[g] = {}
      <3>1. /\ Distinct' /\ LinkedOrDown' /\ RoutesAllocated'
            /\ UnmovedOutside(live) /\ EmptiedIn(live)
        BY <1>3, <1>5, <2>1, <2>2, <2>3, <2>4
      <3> QED
        BY <3>1 DEF UnmovedOutside, EmptiedIn
    <2>6. /\ \A v \in Workers \ {w} : frame'[v] = frame[v]
          /\ frame'[w] = Idle
      BY <1>0, <1>5
    <2>7. FrameFine(frame'[w], Linked', TokenTable', cids')
      BY <2>6, IdleRests, RestingFine
    <2>8. \A h \in live \cap Linked' :
            /\ \A v \in Workers \ {w} : TokenTable'[h] \cap frame[v].tokens = {}
            /\ TokenTable'[h] \subseteq cids'
      BY <2>5
    <2>9. \A h \in Groups \ live : /\ TokenTable'[h] = TokenTable[h]
                                   /\ h \in Linked' => h \in Linked
                                   /\ TokenTable[h] \cap (cids' \ cids) = {}
      BY <1>5, <2>5
    <2>10. cids \subseteq cids'
      BY <1>5
    <2>11. TokensInv'
      BY <1>0, <2>1, <2>5, <2>6, <2>7, <2>8, <2>9, <2>10, TokensMoved
    <2>12. LinkedOrMoved(NewTokens)
      <3>1. Linked' \subseteq Groups
        BY DEF Linked, TypeOK
      <3> QED
        BY <2>5, <3>1 DEF LinkedOrMoved
    <2> QED
      BY <2>11, <2>12
  <1> QED
    BY <1>1, <1>4, <1>5 DEF RestoreGoesOn

\* A restore goes on with what it finds, or, after a failure of its call,
\* without the group it had asked for.
LEMMA GoesOnWithNow == RoutingInv => GoesOnWith(status, route)
  BY DEF RoutingInv, GoesOnWith, Active, TypeOK

LEMMA GoesOnWithout ==
  ASSUME RoutingInv, TokensInv, NEW w \in Workers, frame[w].op = "RESTORE"
  PROVE  GoesOnWith([status EXCEPT ![frame[w].group] = "FAILED"],
                    Unrouted(frame[w].tokens))
  <1> DEFINE T == frame[w].tokens
             st == [status EXCEPT ![frame[w].group] = "FAILED"]
             rt == Unrouted(T)
  <1>0. TypeOK /\ Owned /\ OnlyOf(Linked, TokenTable, frame[w].group, T)
    BY DEF RoutingInv, TokensInv, FrameFine
  <1>1. \A h \in Groups : /\ st[h] \in ActiveStatuses => Active(h)
                          /\ h = frame[w].group => st[h] \notin ActiveStatuses
    BY <1>0 DEF Active, ActiveStatuses, TypeOK
  <1>2. \A t \in Tokens : rt[t] = IF t \in T THEN NoItem ELSE route[t]
    BY DEF Unrouted
  <1> HIDE DEF T, st, rt
  <1>3. ASSUME NEW h \in registered
        PROVE  \/ \A i \in items[h] : rt[native[i]] = route[native[i]]
               \/ /\ st[h] \notin ActiveStatuses
                  /\ \A i \in items[h] : rt[native[i]] = NoItem
    <2>1. h \in Groups
      BY <1>0 DEF TypeOK
    <2>2. \A i \in items[h] : /\ native[i] \in Tokens
                              /\ native[i] \in TokenTable[h]
      BY <1>0, <2>1, TokenTableIs DEF Owned, TokensOf
    <2>3. CASE h \in Linked /\ TokenTable[h] \cap T = {}
      BY <1>2, <2>2, <2>3
    <2>4. CASE h = frame[w].group /\ TokenTable[h] \subseteq T
      BY <1>1, <1>2, <2>1, <2>2, <2>4
    <2>5. CASE Down(h)
      BY <1>1, <1>2, <2>1, <2>2, <2>5 DEF Down
    <2>6. h \in Linked \/ Down(h)
      BY DEF TokensInv, LinkedOrDown
    <2> QED
      BY <1>0, <2>3, <2>4, <2>5, <2>6 DEF OnlyOf
  <1>4. \A t \in Tokens : rt[t] \in {NoItem, route[t]}
    BY <1>2
  <1>5. registered \subseteq Groups
    BY <1>0 DEF TypeOK
  <1>6. GoesOnWith(st, rt)
    BY <1>1, <1>3, <1>4, <1>5 DEF GoesOnWith
  <1> QED
    BY <1>6 DEF st, rt, T

LEMMA RestoresTokens ==
  ASSUME RoutingInv, TypeOK', TokensInv, NEW w \in Restorers, Restore(w)
  PROVE  TokensInv' /\ LinkedOrMoved(NewTokens)
  <1>0. TypeOK /\ Owned /\ Allocated /\ w \in Workers /\ lastToken \in Nat
    BY ConstantsAssumption DEF RoutingInv, Workers, TypeOK
  <1>1. status \in [Groups -> GroupStatuses] /\ registered \in SUBSET Groups
        /\ frame[w].todo \in SUBSET Groups
    BY <1>0 DEF TypeOK, FrameType
  <1>2. CASE RestoreBegins(w) /\ session = "CONNECTED"
    BY <1>1, <1>2, GoesOnWithNow, RestoreTokens DEF RestoreBegins
  <1>3. CASE RestoreBegins(w) /\ session # "CONNECTED"
    <2>1. /\ UNCHANGED <<items, native, route, cids, registered, status,
                         lastToken>>
          /\ frame' = [frame EXCEPT ![w] = Idle]
      BY <1>3 DEF RestoreBegins, groupVars, itemVars, routeVars
    <2>2. registered' \subseteq registered /\ lastToken <= lastToken'
          /\ \A g \in registered' : Active(g)' => Active(g)
      BY <1>0, <2>1 DEF Active
    <2> QED
      BY <1>0, <2>1, <2>2, IdleGoesOn, QuietTokens DEF LinkedOrMoved
  <1>4. CASE RestoreReturns(w) /\ frame[w].stage = "OK"
    BY <1>1, <1>4, GoesOnWithNow, RestoreTokens DEF RestoreReturns
  <1>5. CASE RestoreReturns(w) /\ frame[w].stage # "OK"
    <2> DEFINE st == [status EXCEPT ![frame[w].group] = "FAILED"]
               rt == Unrouted(frame[w].tokens)
    <2>1. frame[w].op = "RESTORE"
      BY <1>5 DEF RestoreReturns, Returned
    <2>2. GoesOnWith(st, rt)
      BY <1>0, <2>1, GoesOnWithout
    <2>3. st \in [Groups -> GroupStatuses]
      BY <1>1 DEF GroupStatuses
    <2>4. RestoreGoesOn(w, st, rt, frame[w].todo)
      BY <1>5 DEF RestoreReturns
    <2> HIDE DEF st, rt
    <2> QED
      BY <1>1, <2>2, <2>3, <2>4, RestoreTokens
  <1> QED
    BY <1>2, <1>3, <1>4, <1>5 DEF Restore

\* The groups that are linked after a step were so before, with the same
\* tokens, or have feeds that are alike.
LinkedEvenly ==
  \A h \in Linked' : \/ h \in Linked /\ TokenTable'[h] = TokenTable[h]
                     \/ Even(TokenTable'[h], feed, heard)

LEMMA MovedEvenly ==
  ASSUME FeedInv, LinkedOrMoved(NewTokens) \/ TokensStep
         \/ \E w \in Workers : /\ frame[w].op = "RESUBSCRIBE"
                               /\ LinkedOrMoved(frame[w].tokens)
  PROVE  LinkedEvenly
  <1>1. CASE LinkedOrMoved(NewTokens)
    <2>1. \A t \in NewTokens : feed[t] = "NONE"
      BY DEF NewTokens, FeedInv, FeedsKnown
    <2> QED
      BY <1>1, <2>1 DEF LinkedOrMoved, LinkedEvenly, Even
  <1>2. CASE TokensStep
    BY <1>2 DEF TokensStep, LinkedEvenly
  <1>3. ASSUME NEW w \in Workers, frame[w].op = "RESUBSCRIBE",
               LinkedOrMoved(frame[w].tokens)
        PROVE  LinkedEvenly
    <2>1. Even(frame[w].tokens, feed, heard)
      BY <1>3 DEF FeedInv, ProspectiveFeeds
    <2> QED
      BY <1>3, <2>1 DEF LinkedOrMoved, LinkedEvenly, Even
  <1> QED
    BY <1>1, <1>2, <1>3

LEMMA NextTokens ==
  ASSUME RoutingInv, TypeOK', TokensInv, FeedInv, [Next]_vars
  PROVE  TokensInv' /\ LinkedEvenly
  <1>0. Callers \subseteq Workers /\ Sweeper \in Workers
    BY DEF Workers
  <1>1. TokensStep => TokensInv' /\ LinkedEvenly
    BY MovedEvenly DEF TokensStep
  <1>2. TokensInv' /\ LinkedOrMoved(NewTokens) => TokensInv' /\ LinkedEvenly
    BY MovedEvenly
  <1>3. ASSUME NEW w \in Callers, Client(w) PROVE TokensInv' /\ LinkedEvenly
    <2>1. ASSUME NEW g \in Groups, CancelBegins(w, g) PROVE TokensStep
      BY <1>0, <2>1, UnsubscribesTokens DEF CancelBegins, EndedStatuses
    <2> QED
      BY <1>1, <1>2, <1>3, <2>1, CreateTokens, ResubscribeBeginsTokens,
         CreateInvalidTokens, QuietActions
      DEF Client
  <1>4. ASSUME NEW w \in Callers, Resume(w) PROVE TokensInv' /\ LinkedEvenly
    <2>1. CancelReturns(w) => TokensStep
      BY <1>0, UnsubscribedTokens DEF CancelReturns, EndedStatuses
    <2>2. ASSUME ResubscribeCommits(w) PROVE TokensInv' /\ LinkedEvenly
      <3>1. frame[w].op = "RESUBSCRIBE" /\ w \in Workers
        BY <1>0, <2>2 DEF ResubscribeCommits, Returned
      <3> QED
        BY <2>2, <3>1, CommitTokens, MovedEvenly
    <2> QED
      BY <1>1, <1>4, <2>1, <2>2, CreateReturnsTokens, ResubscribeFailsTokens,
         RollbackReturnsTokens
      DEF Resume
  <1>5. ASSUME Sweep PROVE TokensStep
    <2>1. ASSUME NEW g \in Groups, ExpireBegins(g) PROVE TokensStep
      BY <1>0, <2>1, UnsubscribesTokens DEF ExpireBegins, EndedStatuses
    <2>2. ExpireReturns => TokensStep
      BY <1>0, UnsubscribedTokens DEF ExpireReturns, EndedStatuses
    <2> QED
      BY <1>5, <2>1, <2>2, RetryBeginsTokens, QuietActions DEF Sweep
  <1>6. ASSUME NEW w \in Restorers, Reconnect(w) \/ Restore(w)
        PROVE  TokensInv' /\ LinkedEvenly
    BY <1>1, <1>2, <1>6, QuietActions, RestoresTokens
  <1>7. ASSUME NEW t \in Tokens, Event(t) PROVE TokensStep
    BY <1>7, EventTokens
  <1> QED
    BY <1>1, <1>3, <1>4, <1>5, <1>6, <1>7, QuietActions DEF Next

-----------------------------------------------------------------------------
(* Feeds.                                                                  *)

LEMMA InitFeeds == Init => FeedInv
  <1> SUFFICES ASSUME Init PROVE FeedInv
    OBVIOUS
  <1>1. \A w \in Workers : /\ frame[w].op = "IDLE"
                           /\ ~Opening(frame[w])
    BY DEF Init, Idle, Frame, Opening, SubscribeOps
  <1>2. Linked = {}
    BY DEF Init, Linked
  <1> QED
    BY <1>1, <1>2
    DEF Init, FeedInv, FeedsKnown, OpeningNew, ProspectiveFeeds, FeedsTogether

\* A coroutine that asks for no more feeds than it did and holds no more tokens
\* of a resubscription.
Calm(f, f2) ==
  /\ Opening(f2) => Opening(f) /\ f2.asked = f.asked
  /\ f2.op = "RESUBSCRIBE" => f.op = "RESUBSCRIBE" /\ f2.tokens = f.tokens

\* A step in which Bloomberg does nothing; the coroutine that takes it may ask
\* for feeds with new tokens.
UnheardStep ==
  /\ UNCHANGED <<feed, heard>>
  /\ lastToken <= lastToken'
  /\ \E w \in Workers :
       /\ \A v \in Workers \ {w} : frame'[v] = frame[v]
       /\ \/ Calm(frame[w], frame'[w])
          \/ /\ frame'[w].asked \subseteq NewTokens
             /\ frame'[w].tokens \subseteq NewTokens

\* The tokens coroutines hold are not new.
LEMMA AskedAllocated ==
  ASSUME RoutingInv, TokensInv, NEW v \in Workers
  PROVE  /\ frame[v].asked \subseteq frame[v].tokens
         /\ frame[v].tokens \subseteq Tokens
         /\ frame[v].tokens \cap NewTokens = {}
  <1>1. \A t \in frame[v].tokens : t \in Tokens /\ t <= lastToken
    BY DEF RoutingInv, Allocated, TypeOK, FrameType
  <1>2. \A t \in NewTokens : lastToken < t /\ t \in Nat /\ lastToken \in Nat
    BY ConstantsAssumption DEF NewTokens, Tokens, RoutingInv, TypeOK
  <1>3. \A t \in NewTokens : ~(t <= lastToken)
    BY <1>2
  <1>4. frame[v].asked \subseteq frame[v].tokens
    BY DEF TokensInv, FrameFine
  <1> QED
    BY <1>1, <1>3, <1>4

LEMMA UnheardFeeds ==
  ASSUME RoutingInv, TypeOK', TokensInv, FeedInv, UnheardStep, LinkedEvenly
  PROVE  FeedInv'
  <1>1. PICK w \in Workers :
          /\ \A v \in Workers \ {w} : frame'[v] = frame[v]
          /\ \/ Calm(frame[w], frame'[w])
             \/ /\ frame'[w].asked \subseteq NewTokens
                /\ frame'[w].tokens \subseteq NewTokens
    BY DEF UnheardStep
  <1>2. feed' = feed /\ heard' = heard /\ lastToken <= lastToken'
        /\ lastToken \in Nat /\ lastToken' \in Nat
    BY ConstantsAssumption DEF UnheardStep, RoutingInv, TypeOK
  <1>3. \A t \in NewTokens : feed[t] = "NONE"
    BY DEF NewTokens, FeedInv, FeedsKnown
  <1>4. FeedsKnown'
    <2>1. \A t \in Tokens : lastToken' < t => lastToken < t
      BY <1>2 DEF Tokens
    <2> QED
      BY <1>2, <2>1 DEF FeedInv, FeedsKnown
  <1>5. FeedsTogether'
    BY <1>2 DEF FeedInv, FeedsTogether, LinkedEvenly
  <1>6. ProspectiveFeeds'
    <2>1. \A v \in Workers : frame'[v].op = "RESUBSCRIBE" =>
            \/ frame[v].op = "RESUBSCRIBE" /\ frame'[v].tokens = frame[v].tokens
            \/ frame'[v].tokens \subseteq NewTokens
      BY <1>1 DEF Calm
    <2> QED
      BY <1>2, <1>3, <2>1 DEF FeedInv, ProspectiveFeeds, Even
  <1>7. \A v \in Workers : Opening(frame'[v]) =>
          \/ Opening(frame[v]) /\ frame'[v].asked = frame[v].asked
          \/ v = w /\ frame'[v].asked \subseteq NewTokens
    BY <1>1 DEF Calm
  <1>8. \A v \in Workers : frame[v].asked \cap NewTokens = {}
    BY AskedAllocated
  <1>9. OpeningNew'
    BY <1>2, <1>3, <1>7, <1>8 DEF FeedInv, OpeningNew
  <1> QED
    BY <1>4, <1>5, <1>6, <1>9 DEF FeedInv

\* Bloomberg opens no feed, and closes and ends what it does alike.
LEMMA EvenLess ==
  ASSUME NEW T, NEW fd, NEW hd, NEW fd2, NEW hd2, Even(T, fd, hd),
         \A t \in T : /\ fd2[t] = "CLOSED" => fd[t] = "CLOSED"
                      /\ fd2[t] = "OPEN" => fd[t] = "OPEN"
                      /\ fd2[t] = "LOST" /\ hd2[t] # "ENDED" =>
                           hd[t] # "ENDED" /\ fd[t] \in {"OPEN", "LOST"}
                      /\ hd2[t] # "ENDED" => hd[t] # "ENDED",
         \/ \A t \in T : fd2[t] # "OPEN"
         \/ \A t \in T : fd2[t] = "LOST" /\ hd2[t] # "ENDED" => fd[t] = "LOST"
  PROVE  Even(T, fd2, hd2)
  BY DEF Even, Running

\* The steps in which feeds or what is heard of them change: nothing is linked
\* anew, and the frames stay but for a call that comes back.
LEMMA HeardFeeds ==
  ASSUME RoutingInv, TypeOK', FeedInv, TokensStep,
         \A v \in Workers : Calm(frame[v], frame'[v]),
         lastToken' = lastToken,
         \A g \in Linked : Even(TokenTable[g], feed', heard'),
         \A v \in Workers : frame'[v].op = "RESUBSCRIBE" =>
            /\ Even(frame[v].tokens, feed', heard')
            /\ \A t \in frame[v].tokens : feed'[t] # "CLOSED",
         \A v \in Workers : Opening(frame'[v]) =>
            \A t \in frame[v].asked : feed'[t] \in {"NONE", "REFUSED"},
         \A t \in Tokens : /\ lastToken < t => feed'[t] = "NONE"
                           /\ heard'[t] # "NONE" =>
                                feed'[t] \in {"OPEN", "CLOSED", "LOST"}
  PROVE  FeedInv'
  <1>1. FeedsKnown'
    BY DEF FeedsKnown
  <1>2. FeedsTogether'
    BY DEF FeedsTogether, TokensStep
  <1>3. ProspectiveFeeds'
    BY DEF ProspectiveFeeds, Calm
  <1>4. OpeningNew'
    BY DEF OpeningNew, FeedInv, Calm
  <1> QED
    BY <1>1, <1>2, <1>3, <1>4 DEF FeedInv

LEMMA CalmSame == \A f : Calm(f, f)
  BY DEF Calm

LEMMA DeliversCalm ==
  ASSUME TypeOK, NEW w \in Workers, NEW o \in {"OK", "FAILED"}, Delivers(w, o)
  PROVE  /\ \A v \in Workers \ {w} : frame'[v] = frame[v]
         /\ Calm(frame[w], frame'[w]) /\ ~Opening(frame'[w])
  <1>1. \A v \in Workers \ {w} : frame'[v] = frame[v]
    BY DEF Delivers, TypeOK
  <1>2. CASE frame[w].op \in AbandonedOps
    <2>1. frame'[w] = Idle
      BY <1>2 DEF Delivers, TypeOK
    <2> QED
      BY <1>1, <2>1 DEF Calm, Opening, Idle, Frame
  <1>3. CASE frame[w].op \notin AbandonedOps
    <2>1. frame'[w] = [frame[w] EXCEPT !.stage = o] /\ frame[w] \in FrameType
      BY <1>3 DEF Delivers, TypeOK
    <2>2. /\ frame'[w].op = frame[w].op /\ frame'[w].tokens = frame[w].tokens
          /\ frame'[w].stage = o
      BY <2>1 DEF FrameType
    <2> QED
      BY <1>1, <2>2 DEF Calm, Opening
  <1> QED
    BY <1>2, <1>3

\* The tokens of a resubscription in progress are in no other coroutine's call.
LEMMA ProspectiveAlone ==
  ASSUME RoutingInv, TokensInv, NEW w \in Workers, NEW v \in Workers \ {w},
         frame[v].op = "RESUBSCRIBE"
  PROVE  frame[v].tokens \cap frame[w].asked = {}
  <1>1. \A t \in frame[v].tokens : t \notin frame[w].tokens
    BY DEF RoutingInv, Prospective
  <1>2. frame[w].asked \subseteq frame[w].tokens
    BY AskedAllocated
  <1> QED
    BY <1>1, <1>2

\* Feeds are opened for all tokens of a group or for none, and not after they
\* were refused.
LEMMA SubscribedFeeds ==
  ASSUME RoutingInv, TypeOK', TokensInv, FeedInv, TokensStep,
         NEW w \in Workers, SubscribeCallReturns(w)
  PROVE  FeedInv'
  <1> DEFINE A == frame[w].asked
  <1>0. TypeOK /\ frame[w].stage = "CALLING" /\ Opening(frame[w])
        /\ lastToken' = lastToken /\ heard' = heard
        /\ A \subseteq frame[w].tokens /\ A \subseteq Tokens
    BY AskedAllocated DEF SubscribeCallReturns, Opening, RoutingInv
  <1>1. /\ \A v \in Workers \ {w} : frame'[v] = frame[v]
        /\ Calm(frame[w], frame'[w]) /\ ~Opening(frame'[w])
    BY <1>0, DeliversCalm DEF SubscribeCallReturns
  <1>2. /\ \A t \in Tokens : \/ feed'[t] = feed[t]
                             \/ t \in A /\ feed'[t] = "OPEN"
        /\ \A t \in A : feed[t] \in {"NONE", "REFUSED"}
    BY <1>0 DEF SubscribeCallReturns, FeedInv, OpeningNew
  <1>3. \A t \in A : /\ feed'[t] \in {"NONE", "REFUSED", "OPEN"}
                     /\ heard[t] = "NONE"
    BY <1>0, <1>2 DEF FeedInv, FeedsKnown
  <1>4. ASSUME NEW T \in SUBSET Tokens, Even(T, feed, heard),
               T \subseteq A \/ T \cap A = {}
        PROVE  Even(T, feed', heard')
    BY <1>0, <1>2, <1>3, <1>4 DEF Even, Running
  <1>5. ASSUME NEW g \in Linked PROVE Even(TokenTable[g], feed', heard')
    <2>1. TokenTable[g] \in SUBSET Tokens
      BY TokenTableIs DEF Linked, RoutingInv, TypeOK, Owned, TokensOf
    <2>2. TokenTable[g] \subseteq A \/ TokenTable[g] \cap A = {}
      BY <1>0 DEF TokensInv, FrameFine, AllOrNone
    <2>3. Even(TokenTable[g], feed, heard)
      BY DEF FeedInv, FeedsTogether
    <2> QED
      BY <1>4, <2>1, <2>2, <2>3
  <1>6. ASSUME NEW v \in Workers, frame'[v].op = "RESUBSCRIBE"
        PROVE  /\ Even(frame[v].tokens, feed', heard')
               /\ \A t \in frame[v].tokens : feed'[t] # "CLOSED"
    <2>1. frame[v].op = "RESUBSCRIBE"
      BY <1>1, <1>6 DEF Calm
    <2>2. frame[v].tokens = A \/ frame[v].tokens \cap A = {}
      BY <2>1, ProspectiveAlone DEF TokensInv, FrameFine
    <2>3. frame[v].tokens \in SUBSET Tokens
      BY AskedAllocated
    <2>4. Even(frame[v].tokens, feed, heard)
          /\ \A t \in frame[v].tokens : feed[t] # "CLOSED"
      BY <2>1 DEF FeedInv, ProspectiveFeeds
    <2>5. Even(frame[v].tokens, feed', heard')
      BY <1>4, <2>2, <2>3, <2>4
    <2> QED
      BY <1>2, <2>3, <2>4, <2>5
  <1>7. ASSUME NEW v \in Workers, Opening(frame'[v])
        PROVE  \A t \in frame[v].asked : feed'[t] \in {"NONE", "REFUSED"}
    <2>1. v # w /\ Opening(frame[v])
      BY <1>1, <1>7
    <2>2. /\ frame[v].asked \cap A = {} /\ frame[v].asked \subseteq Tokens
          /\ \A t \in frame[v].asked : feed[t] \in {"NONE", "REFUSED"}
      BY <1>0, <2>1, AskedAllocated DEF FeedInv, OpeningNew
    <2> QED
      BY <1>2, <2>2
  <1>8. \A t \in Tokens : /\ lastToken < t => feed'[t] = "NONE"
                          /\ heard'[t] # "NONE" =>
                               feed'[t] \in {"OPEN", "CLOSED", "LOST"}
    <2>1. \A t \in A : ~(lastToken < t)
      <3> TAKE t \in A
      <3>1. t <= lastToken /\ t \in Nat
        BY <1>0 DEF RoutingInv, Allocated, Tokens
      <3>2. lastToken \in Nat
        BY <1>0, ConstantsAssumption DEF TypeOK
      <3> QED
        BY <3>1, <3>2
    <2> QED
      BY <1>0, <1>2, <2>1 DEF FeedInv, FeedsKnown
  <1>9. \A v \in Workers : Calm(frame[v], frame'[v])
    BY <1>1, CalmSame
  <1> QED
    BY <1>0, <1>5, <1>6, <1>7, <1>8, <1>9, HeardFeeds

\* The feeds of a group are closed together, and those that are being asked
\* for are not there to be closed.
LEMMA UnsubscribedFeeds ==
  ASSUME RoutingInv, TypeOK', TokensInv, FeedInv, TokensStep,
         NEW w \in Workers, UnsubscribeCallReturns(w)
  PROVE  FeedInv'
  <1> DEFINE A == frame[w].asked
  <1>0. /\ TypeOK /\ frame[w].stage = "CALLING" /\ frame[w].op # "RESUBSCRIBE"
        /\ lastToken' = lastToken /\ heard' = heard
        /\ A \subseteq frame[w].tokens /\ A \subseteq Tokens
    BY AskedAllocated
    DEF UnsubscribeCallReturns, RoutingInv, UnsubscribeOps
  <1>1. /\ \A v \in Workers \ {w} : frame'[v] = frame[v]
        /\ Calm(frame[w], frame'[w]) /\ ~Opening(frame'[w])
    BY <1>0, DeliversCalm DEF UnsubscribeCallReturns
  <1>2. CASE feed' = feed
    <2>1. LinkedEvenly
      BY DEF TokensStep, LinkedEvenly
    <2>2. UnheardStep
      <3>1. lastToken <= lastToken'
        BY <1>0, ConstantsAssumption DEF TypeOK
      <3> QED
        BY <1>0, <1>1, <1>2, <3>1 DEF UnheardStep
    <2> QED
      BY <2>1, <2>2, UnheardFeeds
  <1>3. CASE feed' = [t \in Tokens |->
               IF t \in A /\ feed[t] = "OPEN" THEN "CLOSED" ELSE feed[t]]
    <2>1. \A t \in Tokens :
            feed'[t] = IF t \in A /\ feed[t] = "OPEN" THEN "CLOSED" ELSE feed[t]
      BY <1>3
    <2>2. ASSUME NEW T \in SUBSET Tokens, Even(T, feed, heard),
                 T \subseteq A \/ T \cap A = {}
          PROVE  Even(T, feed', heard')
      <3>1. CASE T \subseteq A
        BY <1>0, <2>1, <2>2, <3>1 DEF Even, Running
      <3>2. CASE T \cap A = {}
        BY <1>0, <2>1, <2>2, <3>2 DEF Even, Running
      <3> QED
        BY <2>2, <3>1, <3>2
    <2>3. ASSUME NEW g \in Linked PROVE Even(TokenTable[g], feed', heard')
      <3>1. TokenTable[g] \in SUBSET Tokens
        BY TokenTableIs DEF Linked, RoutingInv, TypeOK, Owned, TokensOf
      <3>2. TokenTable[g] \subseteq A \/ TokenTable[g] \cap A = {}
        BY <1>0 DEF TokensInv, FrameFine, AllOrNone
      <3>3. Even(TokenTable[g], feed, heard)
        BY DEF FeedInv, FeedsTogether
      <3> QED
        BY <2>2, <3>1, <3>2, <3>3
    <2>4. ASSUME NEW v \in Workers, frame'[v].op = "RESUBSCRIBE"
          PROVE  /\ Even(frame[v].tokens, feed', heard')
                 /\ \A t \in frame[v].tokens : feed'[t] # "CLOSED"
      <3>1. frame[v].op = "RESUBSCRIBE" /\ v # w
        BY <1>0, <1>1, <2>4 DEF Calm
      <3>2. frame[v].tokens \cap A = {} /\ frame[v].tokens \in SUBSET Tokens
        BY <3>1, ProspectiveAlone, AskedAllocated
      <3>3. Even(frame[v].tokens, feed, heard)
            /\ \A t \in frame[v].tokens : feed[t] # "CLOSED"
        BY <3>1 DEF FeedInv, ProspectiveFeeds
      <3>4. Even(frame[v].tokens, feed', heard')
        BY <2>2, <3>2, <3>3
      <3> QED
        BY <2>1, <3>2, <3>3, <3>4
    <2>5. ASSUME NEW v \in Workers, Opening(frame'[v])
          PROVE  \A t \in frame[v].asked : feed'[t] \in {"NONE", "REFUSED"}
      <3>1. Opening(frame[v])
        BY <1>1, <2>5
      <3>2. /\ \A t \in frame[v].asked : feed[t] \in {"NONE", "REFUSED"}
            /\ frame[v].asked \subseteq Tokens
        BY <3>1, AskedAllocated DEF FeedInv, OpeningNew
      <3> QED
        BY <2>1, <3>2
    <2>6. \A t \in Tokens : /\ lastToken < t => feed'[t] = "NONE"
                            /\ heard'[t] # "NONE" =>
                                 feed'[t] \in {"OPEN", "CLOSED", "LOST"}
      BY <1>0, <2>1 DEF FeedInv, FeedsKnown
    <2>7. \A v \in Workers : Calm(frame[v], frame'[v])
      BY <1>1, CalmSame
    <2> QED
      BY <1>0, <2>3, <2>4, <2>5, <2>6, <2>7, HeardFeeds
  <1> QED
    BY <1>2, <1>3 DEF UnsubscribeCallReturns

\* The session's end and the events: nothing is opened, and what ends was open.
LEMMA EndingFeeds ==
  ASSUME RoutingInv, TypeOK', TokensInv, FeedInv, TokensStep,
         LoseSession \/ \E t \in Tokens : Event(t)
  PROVE  FeedInv'
  <1>0. UNCHANGED <<frame, lastToken>>
    BY DEF LoseSession, Event, EventStarted, EventFailed, EventUnsubscribed
  <1>1. ASSUME NEW t \in Tokens
        PROVE  /\ feed'[t] = "CLOSED" <=> feed[t] = "CLOSED"
               /\ feed'[t] = "OPEN" => feed[t] = "OPEN"
               /\ feed'[t] = "LOST" /\ heard'[t] # "ENDED" =>
                    heard[t] # "ENDED" /\ feed[t] \in {"OPEN", "LOST"}
               /\ heard'[t] # "ENDED" => heard[t] # "ENDED"
               /\ feed[t] = "NONE" => feed'[t] \in {"NONE", "REFUSED"}
               /\ feed[t] = "NONE" /\ lastToken < t => feed'[t] = "NONE"
               /\ feed[t] = "REFUSED" => feed'[t] = "REFUSED"
               /\ heard'[t] # "NONE" =>
                    \/ heard[t] # "NONE"
                    \/ feed[t] \in {"OPEN", "CLOSED", "LOST"}
               /\ feed[t] \in {"OPEN", "CLOSED", "LOST"} =>
                    feed'[t] \in {"OPEN", "CLOSED", "LOST"}
    <2>0. feed \in [Tokens -> FeedStates] /\ t \in Nat /\ lastToken \in Nat
          /\ heard \in [Tokens -> {"NONE", "STARTED", "ENDED"}]
      BY ConstantsAssumption DEF RoutingInv, TypeOK, Tokens
    <2>1. CASE LoseSession
      <3>1. heard' = heard
            /\ feed'[t] = IF feed[t] = "OPEN" THEN "LOST"
                          ELSE IF feed[t] = "NONE" /\ t <= lastToken
                               THEN "REFUSED" ELSE feed[t]
        BY <2>1 DEF LoseSession
      <3> QED
        BY <2>0, <3>1
    <2>2. ASSUME NEW s \in Tokens, Event(s)
          PROVE  \/ /\ feed' = feed /\ heard' = [heard EXCEPT ![s] = "STARTED"]
                    /\ heard[s] = "NONE"
                    /\ feed[s] \in {"OPEN", "CLOSED", "LOST"}
                 \/ /\ feed' = feed /\ heard' = [heard EXCEPT ![s] = "ENDED"]
                    /\ feed[s] = "CLOSED"
                 \/ /\ feed' = [feed EXCEPT ![s] = "LOST"]
                    /\ heard' = [heard EXCEPT ![s] = "ENDED"]
                    /\ feed[s] \in {"OPEN", "LOST"}
      BY <2>2 DEF Event, EventStarted, EventFailed, EventUnsubscribed
    <2>3. ASSUME NEW s \in Tokens, Event(s)
          PROVE  /\ t # s => feed'[t] = feed[t] /\ heard'[t] = heard[t]
                 /\ t = s =>
                      \/ feed'[t] = feed[t] /\ feed[t] \in {"OPEN", "CLOSED", "LOST"}
                         /\ heard'[t] = "STARTED" /\ heard[t] = "NONE"
                      \/ feed'[t] = feed[t] /\ feed[t] = "CLOSED"
                         /\ heard'[t] = "ENDED"
                      \/ feed'[t] = "LOST" /\ feed[t] \in {"OPEN", "LOST"}
                         /\ heard'[t] = "ENDED"
      BY <2>0, <2>2, <2>3
    <2> QED
      BY <2>0, <2>1, <2>3
  <1>2. \/ \A t \in Tokens : feed'[t] # "OPEN"
        \/ \A t \in Tokens :
             feed'[t] = "LOST" /\ heard'[t] # "ENDED" => feed[t] = "LOST"
    <2>1. LoseSession => \A t \in Tokens : feed'[t] # "OPEN"
      BY DEF LoseSession
    <2>2. ASSUME NEW s \in Tokens, Event(s), NEW t \in Tokens,
                 feed'[t] = "LOST", heard'[t] # "ENDED"
          PROVE  feed[t] = "LOST"
      <3>1. t = s => heard'[t] = "ENDED" \/ feed'[t] = feed[t]
        BY <2>2 DEF Event, EventStarted, EventFailed, EventUnsubscribed,
                    RoutingInv, TypeOK
      <3>2. t # s => feed'[t] = feed[t]
        BY <2>2 DEF Event, EventStarted, EventFailed, EventUnsubscribed,
                    RoutingInv, TypeOK
      <3> QED
        BY <2>2, <3>1, <3>2
    <2> QED
      BY <2>1, <2>2
  <1>3. ASSUME NEW T \in SUBSET Tokens, Even(T, feed, heard)
        PROVE  Even(T, feed', heard')
    <2>1. \A t \in T : /\ feed'[t] = "CLOSED" => feed[t] = "CLOSED"
                       /\ feed'[t] = "OPEN" => feed[t] = "OPEN"
                       /\ feed'[t] = "LOST" /\ heard'[t] # "ENDED" =>
                            heard[t] # "ENDED" /\ feed[t] \in {"OPEN", "LOST"}
                       /\ heard'[t] # "ENDED" => heard[t] # "ENDED"
      BY <1>1
    <2>2. \/ \A t \in T : feed'[t] # "OPEN"
          \/ \A t \in T :
               feed'[t] = "LOST" /\ heard'[t] # "ENDED" => feed[t] = "LOST"
      BY <1>2
    <2> QED
      BY <1>3, <2>1, <2>2, EvenLess
  <1>4. \A g \in Linked : Even(TokenTable[g], feed', heard')
    <2> TAKE g \in Linked
    <2>1. TokenTable[g] \in SUBSET Tokens
      BY TokenTableIs DEF Linked, RoutingInv, TypeOK, Owned, TokensOf
    <2> QED
      BY <1>3, <2>1 DEF FeedInv, FeedsTogether
  <1>5. \A v \in Workers : frame'[v].op = "RESUBSCRIBE" =>
            /\ Even(frame[v].tokens, feed', heard')
            /\ \A t \in frame[v].tokens : feed'[t] # "CLOSED"
    <2> TAKE v \in Workers
    <2> HAVE frame'[v].op = "RESUBSCRIBE"
    <2>1. /\ Even(frame[v].tokens, feed, heard)
          /\ \A t \in frame[v].tokens : feed[t] # "CLOSED"
          /\ frame[v].tokens \in SUBSET Tokens
      BY <1>0, AskedAllocated DEF FeedInv, ProspectiveFeeds
    <2> QED
      BY <1>1, <1>3, <2>1
  <1>6. \A v \in Workers : Opening(frame'[v]) =>
            \A t \in frame[v].asked : feed'[t] \in {"NONE", "REFUSED"}
    <2> TAKE v \in Workers
    <2> HAVE Opening(frame'[v])
    <2>1. /\ \A t \in frame[v].asked : feed[t] \in {"NONE", "REFUSED"}
          /\ frame[v].asked \subseteq Tokens
      BY <1>0, AskedAllocated DEF FeedInv, OpeningNew
    <2> QED
      BY <1>1, <2>1
  <1>7. \A t \in Tokens : /\ lastToken < t => feed'[t] = "NONE"
                          /\ heard'[t] # "NONE" =>
                               feed'[t] \in {"OPEN", "CLOSED", "LOST"}
    BY <1>1 DEF FeedInv, FeedsKnown
  <1>8. \A v \in Workers : Calm(frame[v], frame'[v])
    BY <1>0, CalmSame
  <1> QED
    BY <1>0, <1>4, <1>5, <1>6, <1>7, <1>8, HeardFeeds

\* A coroutine that goes idle, or waits for something else than feeds.
LEMMA OneCalm ==
  ASSUME TypeOK, UNCHANGED <<feed, heard>>, lastToken <= lastToken',
         NEW w \in Workers, NEW f2, frame' = [frame EXCEPT ![w] = f2],
         \/ f2.op # "RESUBSCRIBE" /\ ~Opening(f2)
         \/ f2.asked \subseteq NewTokens /\ f2.tokens \subseteq NewTokens
  PROVE  UnheardStep
  <1>1. frame'[w] = f2 /\ \A v \in Workers \ {w} : frame'[v] = frame[v]
    BY DEF TypeOK
  <1> QED
    BY <1>1 DEF UnheardStep, Calm

LEMMA SameUnheard ==
  ASSUME UNCHANGED <<feed, heard, frame>>, lastToken <= lastToken'
  PROVE  UnheardStep
  BY CalmSame DEF UnheardStep, Workers

LEMMA IdleCalm == Idle.op # "RESUBSCRIBE" /\ ~Opening(Idle)
  BY DEF Idle, Frame, Opening, SubscribeOps

LEMMA CallingCalm ==
  \A op \in UnsubscribeOps \cup {"ABANDONED_UNSUBSCRIBE"} : \A g, T, A, todo :
    /\ Calling(op, g, T, A, todo).op # "RESUBSCRIBE"
    /\ ~Opening(Calling(op, g, T, A, todo))
  BY DEF Calling, Frame, Opening, SubscribeOps, UnsubscribeOps

LEMMA CallingNew ==
  ASSUME NEW op, NEW g, NEW T \in SUBSET NewTokens, NEW todo
  PROVE  /\ Calling(op, g, T, T, todo).asked \subseteq NewTokens
         /\ Calling(op, g, T, T, todo).tokens \subseteq NewTokens
  BY DEF Calling, Frame

LEMMA FreshNew ==
  ASSUME RoutingInv, NEW n \in ItemCounts, lastToken + n <= MaxToken
  PROVE  Fresh(n) \in SUBSET NewTokens /\ lastToken <= lastToken + n
  <1>1. /\ \A t \in Fresh(n) : t \in Nat /\ lastToken < t
        /\ Fresh(n) \subseteq Tokens
    BY FreshTyped DEF RoutingInv
  <1>2. lastToken \in Nat /\ n \in Nat
    BY ConstantsAssumption DEF RoutingInv, TypeOK
  <1> QED
    BY <1>1, <1>2 DEF NewTokens

\* In all steps but those of Bloomberg, its session and its native calls.
LEMMA UnheardClient ==
  ASSUME RoutingInv, TypeOK', NEW w \in Callers, Client(w) PROVE UnheardStep
  <1>0. /\ TypeOK /\ w \in Workers /\ lastToken \in Nat /\ lastToken <= lastToken
        /\ DOMAIN frame = Workers
    BY ConstantsAssumption DEF RoutingInv, TypeOK, Workers
  <1>1. ASSUME NEW g \in Groups, NEW n \in ItemCounts,
               CreateBegins(w, g, n) \/ ResubscribeBegins(w, g, n)
        PROVE  UnheardStep
    <2>1. /\ UNCHANGED <<feed, heard>>
          /\ lastToken + n <= MaxToken /\ lastToken' = lastToken + n
          /\ \/ frame' = frame
             \/ frame' = [frame EXCEPT
                  ![w] = Calling("CREATE", g, Fresh(n), Fresh(n), {})]
             \/ frame' = [frame EXCEPT
                  ![w] = Calling("RESUBSCRIBE", g, Fresh(n), Fresh(n), {})]
      BY <1>1 DEF CreateBegins, ResubscribeBegins, bloombergVars
    <2>2. Fresh(n) \in SUBSET NewTokens /\ lastToken <= lastToken'
      BY <2>1, FreshNew
    <2> QED
      BY <1>0, <2>1, <2>2, CallingNew, OneCalm, SameUnheard
  <1>2. ASSUME NEW g \in Groups, CancelBegins(w, g) PROVE UnheardStep
    <2>1. /\ UNCHANGED <<feed, heard, lastToken>>
          /\ \/ frame' = frame
             \/ frame' = [frame EXCEPT ![w] =
                  Calling("CANCEL", g, TokensOf(g), Asks(TokensOf(g)), {})]
      BY <1>2 DEF CancelBegins, Unsubscribes, bloombergVars
    <2>2. "CANCEL" \in UnsubscribeOps \cup {"ABANDONED_UNSUBSCRIBE"}
      BY DEF UnsubscribeOps
    <2> QED
      BY <1>0, <2>1, <2>2, CallingCalm, OneCalm, SameUnheard
  <1>3. ASSUME NEW n \in ItemCounts, CreateInvalid(w, n) PROVE UnheardStep
    <2>1. UNCHANGED <<feed, heard, frame>> /\ lastToken' = lastToken + n
          /\ lastToken + n <= MaxToken
      BY <1>3 DEF CreateInvalid, bloombergVars
    <2> QED
      BY <2>1, FreshNew, SameUnheard
  <1>4. ASSUME Abandon(w) PROVE UnheardStep
    <2>1. UNCHANGED <<feed, heard, lastToken>>
      BY <1>4 DEF Abandon, bloombergVars
    <2>2. /\ \A v \in Workers \ {w} : frame'[v] = frame[v]
          /\ \/ frame'[w] = Idle
             \/ /\ frame[w].op \in SubscribeOps /\ frame[w].stage = "CALLING"
                /\ frame'[w] = Calling("ABANDONED_SUBSCRIBE", frame[w].group,
                                 frame[w].tokens, frame[w].asked, {})
             \/ frame'[w] = Calling("ABANDONED_UNSUBSCRIBE", frame[w].group,
                              frame[w].tokens, frame[w].asked, {})
      BY <1>0, <1>4 DEF Abandon
    <2>3. Calm(frame[w], frame'[w])
      BY <2>2 DEF Calm, Calling, Idle, Frame, Opening, SubscribeOps
    <2>4. lastToken <= lastToken'
      BY <1>0, <2>1
    <2> QED
      BY <1>0, <2>1, <2>2, <2>3, <2>4 DEF UnheardStep
  <1> QED
    BY <1>1, <1>2, <1>3, <1>4 DEF Client

LEMMA UnheardResume ==
  ASSUME RoutingInv, TypeOK',
         (\E w \in Callers : Resume(w)) \/ Sweep
  PROVE  UnheardStep
  <1>0. /\ TypeOK /\ lastToken \in Nat /\ lastToken <= lastToken
        /\ Callers \subseteq Workers /\ Sweeper \in Workers
    BY ConstantsAssumption DEF RoutingInv, TypeOK, Workers
  <1>1. ASSUME NEW w \in Workers, UNCHANGED <<feed, heard, lastToken>>,
               frame' = [frame EXCEPT ![w] = Idle]
        PROVE  UnheardStep
    BY <1>0, <1>1, IdleCalm, OneCalm
  <1>2. ASSUME NEW w \in Workers, UNCHANGED <<feed, heard, lastToken>>,
               NEW op \in UnsubscribeOps \cup {"ABANDONED_UNSUBSCRIBE"},
               NEW g, NEW T, NEW A,
               frame' = [frame EXCEPT ![w] = Calling(op, g, T, A, {})]
        PROVE  UnheardStep
    BY <1>0, <1>2, CallingCalm, OneCalm
  <1>3. UNCHANGED <<feed, heard, lastToken, frame>> => UnheardStep
    BY <1>0, SameUnheard
  <1>4. ASSUME NEW w \in Callers, Resume(w) PROVE UnheardStep
    <2>1. CASE CreateReturns(w) \/ ResubscribeCommits(w) \/ RollbackReturns(w)
               \/ CancelReturns(w)
      <3>1. /\ UNCHANGED <<feed, heard, lastToken>>
            /\ frame' = [frame EXCEPT ![w] = Idle]
        BY <2>1 DEF CreateReturns, ResubscribeCommits, RollbackReturns,
                    CancelReturns, Unsubscribed, FailedTokens, bloombergVars
      <3> QED
        BY <1>0, <1>1, <3>1
    <2>2. CASE ResubscribeFails(w)
      <3>1. /\ UNCHANGED <<feed, heard, lastToken>>
            /\ \/ frame' = [frame EXCEPT ![w] = Idle]
               \/ frame' = [frame EXCEPT ![w] =
                    Calling("ROLLBACK", frame[w].group, frame[w].tokens,
                            Asks(frame[w].tokens), {})]
        BY <2>2 DEF ResubscribeFails, bloombergVars
      <3>2. "ROLLBACK" \in UnsubscribeOps \cup {"ABANDONED_UNSUBSCRIBE"}
        BY DEF UnsubscribeOps
      <3> QED
        BY <1>0, <1>1, <1>2, <3>1, <3>2
    <2> QED
      BY <1>4, <2>1, <2>2 DEF Resume
  <1>5. ASSUME Sweep PROVE UnheardStep
    <2>1. ASSUME NEW g \in Groups, ExpireBegins(g) PROVE UnheardStep
      <3>1. /\ UNCHANGED <<feed, heard, lastToken>>
            /\ \/ frame' = frame
               \/ frame' = [frame EXCEPT ![Sweeper] =
                    Calling("EXPIRE", g, TokensOf(g), Asks(TokensOf(g)), {})]
        BY <2>1 DEF ExpireBegins, Unsubscribes, bloombergVars
      <3>2. "EXPIRE" \in UnsubscribeOps \cup {"ABANDONED_UNSUBSCRIBE"}
        BY DEF UnsubscribeOps
      <3> QED
        BY <1>0, <1>2, <1>3, <3>1, <3>2
    <2>2. ASSUME NEW t \in Tokens, RetryBegins(t) PROVE UnheardStep
      <3>1. /\ UNCHANGED <<feed, heard, lastToken>>
            /\ \/ frame' = frame
               \/ frame' = [frame EXCEPT ![Sweeper] =
                    Calling("RETRY", NoGroup, {t}, Asks({t}), {})]
        BY <2>2 DEF RetryBegins, bloombergVars
      <3>2. "RETRY" \in UnsubscribeOps \cup {"ABANDONED_UNSUBSCRIBE"}
        BY DEF UnsubscribeOps
      <3> QED
        BY <1>0, <1>2, <1>3, <3>1, <3>2
    <2>3. CASE ExpireReturns \/ RetryReturns
      <3>1. /\ UNCHANGED <<feed, heard, lastToken>>
            /\ frame' = [frame EXCEPT ![Sweeper] = Idle]
        BY <2>3 DEF ExpireReturns, Unsubscribed, FailedTokens, RetryReturns, bloombergVars
      <3> QED
        BY <1>0, <1>1, <3>1
    <2> QED
      BY <1>5, <2>1, <2>2, <2>3 DEF Sweep
  <1> QED
    BY <1>4, <1>5

LEMMA UnheardRestore ==
  ASSUME RoutingInv, TypeOK', NEW w \in Restorers, Reconnect(w) \/ Restore(w)
  PROVE  UnheardStep
  <1>0. /\ TypeOK /\ lastToken \in Nat /\ lastToken <= lastToken /\ w \in Workers
        /\ frame[w].todo \in SUBSET Groups
    BY ConstantsAssumption DEF RoutingInv, TypeOK, Workers, FrameType
  <1>1. ASSUME UNCHANGED <<feed, heard, lastToken>>,
               frame' = [frame EXCEPT ![w] = Idle]
        PROVE  UnheardStep
    BY <1>0, <1>1, IdleCalm, OneCalm
  <1>2. ASSUME NEW st, NEW rt, NEW todo \in SUBSET Groups,
               RestoreGoesOn(w, st, rt, todo)
        PROVE  UnheardStep
    <2>0. UNCHANGED <<feed, heard>>
      BY <1>2 DEF RestoreGoesOn, bloombergVars
    <2>1. ASSUME NEW I \in SUBSET Tokens, NEW fresh \in Renumberings(I),
                 NEW routed, SwapTokens(I, fresh, rt, routed)
          PROVE  /\ lastToken <= lastToken'
                 /\ \A t \in {fresh[i] : i \in I} : t \in NewTokens
      <3>1. Cardinality(I) \in Nat /\ lastToken' = lastToken + Cardinality(I)
        BY <2>1, ItemSetsFinite DEF SwapTokens
      <3>2. \A i \in I : /\ fresh[i] \in Nat /\ lastToken < fresh[i]
                         /\ fresh[i] <= lastToken'
        BY <1>0, <2>1, <3>1, RenumberingsFresh
      <3>3. lastToken' \in Nat /\ lastToken' <= MaxToken /\ MaxToken \in Nat
        BY ConstantsAssumption DEF TypeOK
      <3>4. ASSUME NEW i \in I PROVE fresh[i] \in NewTokens
        BY <1>0, <3>2, <3>3 DEF NewTokens, Tokens
      <3> QED
        BY <1>0, <3>1, <3>4
    <2>2. CASE /\ UNCHANGED lastToken
               /\ frame' = [frame EXCEPT ![w] = Idle]
      BY <1>1, <2>0, <2>2
    <2>3. ASSUME NEW g \in todo, NEW fresh \in Renumberings(items[g]),
                 SwapTokens(items[g], fresh, rt, TRUE),
                 frame' = [frame EXCEPT ![w] =
                   Calling("RESTORE", g, {fresh[i] : i \in items[g]},
                           {fresh[i] : i \in items[g]}, todo \ {g})]
          PROVE  UnheardStep
      <3> DEFINE new == {fresh[i] : i \in items[g]}
      <3>1. items[g] \in SUBSET Tokens
        BY <1>0 DEF TypeOK
      <3>2. new \in SUBSET NewTokens /\ lastToken <= lastToken'
        BY <2>1, <2>3, <3>1
      <3>3. frame' = [frame EXCEPT ![w] =
                        Calling("RESTORE", g, new, new, todo \ {g})]
        BY <2>3
      <3> HIDE DEF new
      <3> QED
        BY <1>0, <2>0, <3>2, <3>3, CallingNew, OneCalm
    <2>4. ASSUME NEW I \in SUBSET Tokens, NEW fresh \in Renumberings(I),
                 SwapTokens(I, fresh, rt, FALSE),
                 frame' = [frame EXCEPT ![w] = Idle]
          PROVE  UnheardStep
      <3>1. lastToken <= lastToken'
        BY <2>1, <2>4
      <3> QED
        BY <1>0, <2>0, <2>4, <3>1, IdleCalm, OneCalm
    <2>5. \A L \in SUBSET Groups : UNION {items[g] : g \in L} \in SUBSET Tokens
      BY <1>0 DEF TypeOK
    <2> QED
      BY <1>2, <2>2, <2>3, <2>4, <2>5 DEF RestoreGoesOn
  <1>3. CASE Reconnect(w)
    <2>1. /\ UNCHANGED <<feed, heard, lastToken>>
          /\ \A v \in Workers \ {w} : frame'[v] = frame[v]
          /\ frame'[w] = [Idle EXCEPT !.op = "RESTORE_DUE"]
      BY <1>0, <1>3 DEF Reconnect, bloombergVars, TypeOK
    <2>2. Calm(frame[w], frame'[w])
      BY <2>1 DEF Calm, Idle, Frame, Opening, SubscribeOps
    <2>3. lastToken <= lastToken'
      BY <1>0, <2>1
    <2> QED
      BY <1>0, <2>1, <2>2, <2>3 DEF UnheardStep
  <1>4. CASE RestoreBegins(w)
    <2>1. CASE session = "CONNECTED"
      <3>1. registered \in SUBSET Groups
        BY <1>0 DEF TypeOK
      <3> QED
        BY <1>2, <1>4, <2>1, <3>1 DEF RestoreBegins
    <2>2. CASE session # "CONNECTED"
      BY <1>1, <1>4, <2>2 DEF RestoreBegins, bloombergVars
    <2> QED
      BY <2>1, <2>2
  <1>5. CASE RestoreReturns(w)
    BY <1>0, <1>2, <1>5 DEF RestoreReturns
  <1> QED
    BY <1>3, <1>4, <1>5 DEF Restore

LEMMA NextFeeds ==
  ASSUME RoutingInv, TypeOK', TokensInv, FeedInv, [Next]_vars
  PROVE  TokensInv' /\ FeedInv'
  <1>1. TokensInv' /\ LinkedEvenly
    BY NextTokens
  <1>2. UnheardStep => FeedInv'
    BY <1>1, UnheardFeeds
  <1>3. ASSUME NEW w \in Workers, CallReturns(w) PROVE FeedInv'
    BY <1>3, QuietActions, SubscribedFeeds, UnsubscribedFeeds DEF CallReturns
  <1>4. ASSUME LoseSession \/ \E t \in Tokens : Event(t) PROVE FeedInv'
    <2>1. TokensStep
      BY <1>4, QuietActions, EventTokens
    <2> QED
      BY <1>4, <2>1, EndingFeeds
  <1>5. ASSUME \/ \E g \in Groups : TimeToLivePasses(g)
               \/ TearDown \/ StartNative \/ UNCHANGED vars
        PROVE  FeedInv'
    <2>1. UNCHANGED <<feed, heard, frame, lastToken>>
      BY <1>5 DEF TimeToLivePasses, TearDown, StartNative, vars, bloombergVars
    <2>2. lastToken <= lastToken'
      BY <2>1, ConstantsAssumption DEF RoutingInv, TypeOK
    <2> QED
      BY <1>2, <2>1, <2>2, SameUnheard
  <1> QED
    BY <1>1, <1>2, <1>3, <1>4, <1>5, UnheardClient, UnheardResume,
       UnheardRestore
    DEF Next

-----------------------------------------------------------------------------
(* Confirmation.                                                           *)

LEMMA InitConfirmed == Init => ItemsConfirmed /\ ActiveShape
  BY DEF Init, ItemsConfirmed, ActiveShape, Linked

\* The groups outside N keep their items, with tokens outside X and the same
\* statuses; those of N are not active, and no group becomes active.
SameItems(N, X) ==
  \A h \in Groups \ N :
    /\ items'[h] = items[h]
    /\ \A i \in items[h] : /\ native'[i] = native[i] /\ native[i] \notin X
                           /\ itemStatus'[i] = itemStatus[i]
NotActiveIn(N) ==
  /\ \A h \in N : \A i \in items'[h] : itemStatus'[i] # "ACTIVE"
  /\ \A h \in registered' :
       status'[h] = "ACTIVE" =>
         h \notin N /\ h \in registered /\ status[h] = "ACTIVE"

\* The groups N are changed and do not become active; the others keep their
\* items, tokens and statuses, or fail.  No event is handled.
LEMMA ConfirmedKept ==
  ASSUME RoutingInv, TypeOK', ItemsConfirmed, ActiveShape,
         NEW X, LinkedOrMoved(X), NEW N \in SUBSET Groups,
         heard' = heard,
         \A t \in Tokens : feed[t] = "CLOSED" => feed'[t] = "CLOSED",
         SameItems(N, X), NotActiveIn(N)
  PROVE  ItemsConfirmed' /\ ActiveShape'
  <1>1. registered' \subseteq Groups /\ Linked' \subseteq registered'
    BY DEF TypeOK, Linked
  <1>2. ASSUME NEW h \in Linked', NEW i \in items'[h],
               itemStatus'[i] = "ACTIVE"
        PROVE  heard'[native'[i]] = "STARTED"
    <2>1. h \in Groups \ N
      BY <1>1, <1>2 DEF NotActiveIn
    <2>2. i \in items[h] /\ native'[i] = native[i] /\ native[i] \notin X
          /\ itemStatus[i] = "ACTIVE"
      BY <1>2, <2>1 DEF SameItems
    <2>3. native[i] \in TokenTable'[h]
      <3>1. TokenTable'[h] = {native'[j] : j \in items'[h]}
        BY <2>1 DEF TokenTable, TokensOf
      <3> QED
        BY <2>2, <3>1
    <2>4. h \in Linked
      BY <2>2, <2>3 DEF LinkedOrMoved
    <2> QED
      BY <2>2, <2>4 DEF ItemsConfirmed
  <1>3. ASSUME NEW h \in registered', status'[h] = "ACTIVE"
        PROVE  \/ \A i \in items'[h] : itemStatus'[i] = "ACTIVE"
               \/ \A i \in items'[h] : feed'[native'[i]] = "CLOSED"
    <2>1. h \in Groups \ N /\ h \in registered /\ status[h] = "ACTIVE"
      BY <1>1, <1>3 DEF NotActiveIn
    <2>2. \A i \in items[h] : native[i] \in Tokens
      BY <2>1 DEF RoutingInv, Owned
    <2>3. \/ \A i \in items[h] : itemStatus[i] = "ACTIVE"
          \/ \A i \in items[h] : feed[native[i]] = "CLOSED"
      BY <2>1 DEF ActiveShape
    <2> QED
      BY <2>1, <2>2, <2>3 DEF SameItems
  <1> QED
    BY <1>2, <1>3 DEF ItemsConfirmed, ActiveShape

\* The groups keep their items and all statuses.
LEMMA StillConfirmed ==
  ASSUME RoutingInv, TypeOK', ItemsConfirmed, ActiveShape, TokensStep,
         UNCHANGED <<items, native, itemStatus, status, heard>>,
         registered' \subseteq registered,
         \A t \in Tokens : feed[t] = "CLOSED" => feed'[t] = "CLOSED"
  PROVE  ItemsConfirmed' /\ ActiveShape'
  <1>1. LinkedOrMoved({})
    BY DEF TokensStep, LinkedOrMoved
  <1>2. {} \in SUBSET Groups
    OBVIOUS
  <1>3. SameItems({}, {})
    BY DEF SameItems
  <1>4. NotActiveIn({})
    BY DEF NotActiveIn
  <1> QED
    BY <1>1, <1>2, <1>3, <1>4, ConfirmedKept

\* A group that ends is not active any more, and none of its items is.
LEMMA EndsConfirmed ==
  ASSUME RoutingInv, TypeOK', ItemsConfirmed, ActiveShape, TokensStep,
         NEW g \in Groups, NEW T, NEW final \in EndedStatuses,
         Ends(g, T, final),
         UNCHANGED <<items, native, heard, feed, registered>>
  PROVE  ItemsConfirmed' /\ ActiveShape'
  <1>0. TypeOK /\ Owned
    BY DEF RoutingInv
  <1>1. LinkedOrMoved({})
    BY DEF TokensStep, LinkedOrMoved
  <1>2. {g} \in SUBSET Groups
    OBVIOUS
  <1>3. ASSUME NEW h \in Groups \ {g}, NEW i \in items[h]
        PROVE  itemStatus'[i] = itemStatus[i]
    <2>1. i \in Tokens /\ owner[i] = h
      BY <1>0 DEF TypeOK, Owned
    <2>2. i \notin items[g]
      BY <1>0, <2>1 DEF Owned
    <2> QED
      BY <2>1, <2>2 DEF Ends
  <1>4. NotActiveIn({g})
    BY <1>0 DEF NotActiveIn, Ends, EndedStatuses, TypeOK
  <1>5. SameItems({g}, {})
    BY <1>3 DEF SameItems
  <1>6. heard' = heard
        /\ \A t \in Tokens : feed[t] = "CLOSED" => feed'[t] = "CLOSED"
    OBVIOUS
  <1> QED
    BY <1>1, <1>2, <1>4, <1>5, <1>6, ConfirmedKept

\* What groups have is not new.
LEMMA ItemsNotNew ==
  ASSUME RoutingInv
  PROVE  \A h \in Groups : \A i \in items[h] :
           /\ i \in Tokens /\ i \notin NewTokens /\ native[i] \notin NewTokens
           /\ owner[i] = h
  <1> SUFFICES ASSUME NEW h \in Groups, NEW i \in items[h]
               PROVE  /\ i \in Tokens /\ i \notin NewTokens
                      /\ native[i] \notin NewTokens /\ owner[i] = h
    OBVIOUS
  <1>1. /\ i \in Tokens /\ native[i] \in Tokens /\ owner[i] = h
        /\ i <= lastToken /\ native[i] <= lastToken
    BY DEF RoutingInv, TypeOK, Owned, Allocated
  <1>2. /\ i \in Nat /\ native[i] \in Nat /\ lastToken \in Nat
    BY <1>1, ConstantsAssumption DEF RoutingInv, TypeOK, Tokens
  <1>3. ~(lastToken < i) /\ ~(lastToken < native[i])
    BY <1>1, <1>2
  <1> QED
    BY <1>1, <1>3 DEF NewTokens

\* The group g has new items, which are starting.
LEMMA NewItemsConfirmed ==
  ASSUME RoutingInv, TypeOK', ItemsConfirmed, ActiveShape,
         NEW g \in Groups, NEW T \in SUBSET Tokens, NewItems(g, T),
         NEW X, LinkedOrMoved(X),
         \A h \in Groups : \A i \in items[h] : i \notin T /\ native[i] \notin X,
         registered' \subseteq registered \cup {g},
         status' = [status EXCEPT ![g] = "STARTING"],
         UNCHANGED <<heard, feed>>
  PROVE  ItemsConfirmed' /\ ActiveShape'
  <1>0. TypeOK /\ registered' \subseteq Groups
    BY DEF RoutingInv, TypeOK
  <1>1. SameItems({g}, X)
    <2>1. \A h \in Groups : \A i \in items[h] : i \in Tokens
      BY <1>0 DEF TypeOK
    <2> QED
      BY <1>0, <2>1 DEF SameItems, NewItems, TypeOK
  <1>2. NotActiveIn({g})
    <2>1. \A i \in items'[g] : itemStatus'[i] = "STARTING"
      BY <1>0 DEF NewItems, TypeOK
    <2> QED
      BY <1>0, <2>1 DEF NotActiveIn, TypeOK
  <1>3. heard' = heard
        /\ \A t \in Tokens : feed[t] = "CLOSED" => feed'[t] = "CLOSED"
    OBVIOUS
  <1>4. {g} \in SUBSET Groups
    OBVIOUS
  <1> QED
    BY <1>1, <1>2, <1>3, <1>4, ConfirmedKept

LEMMA CreateConfirmed ==
  ASSUME RoutingInv, TypeOK', TokensInv, ItemsConfirmed, ActiveShape,
         NEW w \in Callers, NEW g \in Groups, NEW n \in ItemCounts,
         CreateBegins(w, g, n)
  PROVE  ItemsConfirmed' /\ ActiveShape'
  <1>1. LinkedOrMoved(NewTokens)
    BY CreateTokens
  <1>2. UNCHANGED <<heard, feed>> /\ lastToken + n <= MaxToken
    BY DEF CreateBegins, bloombergVars
  <1>3. Fresh(n) \in SUBSET NewTokens /\ Fresh(n) \in SUBSET Tokens
    BY <1>2, FreshNew, FreshTyped DEF RoutingInv
  <1>4. CASE UNCHANGED <<registered, status, generation, items, itemVars,
                         routeVars, cids, frame>>
    <2>1. SameItems({}, NewTokens) /\ NotActiveIn({})
      BY <1>4, ItemsNotNew DEF SameItems, NotActiveIn, itemVars
    <2>2. heard' = heard
          /\ \A t \in Tokens : feed[t] = "CLOSED" => feed'[t] = "CLOSED"
      BY <1>2
    <2>3. {} \in SUBSET Groups
      OBVIOUS
    <2> QED
      BY <1>1, <2>1, <2>2, <2>3, ConfirmedKept
  <1>5. CASE session = "CONNECTED"
    <2>1. /\ registered' \subseteq registered \cup {g}
          /\ status' = [status EXCEPT ![g] = "STARTING"]
          /\ NewItems(g, Fresh(n))
      BY <1>5 DEF CreateBegins
    <2>2. \A h \in Groups : \A i \in items[h] :
            i \notin Fresh(n) /\ native[i] \notin NewTokens
      BY <1>3, ItemsNotNew
    <2> QED
      BY <1>1, <1>2, <1>3, <2>1, <2>2, NewItemsConfirmed
  <1> QED
    BY <1>4, <1>5 DEF CreateBegins

LEMMA CommitConfirmed ==
  ASSUME RoutingInv, TypeOK', TokensInv, ItemsConfirmed, ActiveShape,
         NEW w \in Callers, ResubscribeCommits(w)
  PROVE  ItemsConfirmed' /\ ActiveShape'
  <1> DEFINE g == frame[w].group
             T == frame[w].tokens
  <1>0. w \in Workers /\ TypeOK
    BY DEF Workers, RoutingInv
  <1>1. LinkedOrMoved(T)
    BY CommitTokens
  <1>2. /\ frame[w].op = "RESUBSCRIBE"
        /\ UNCHANGED <<heard, feed, registered>>
        /\ status' = [status EXCEPT ![g] = "STARTING"]
        /\ NewItems(g, T)
    BY DEF ResubscribeCommits, Returned, bloombergVars
  <1>3. /\ g \in Groups /\ T \in SUBSET Tokens
        /\ \A h \in Groups : \A i \in items[h] : i \notin T /\ native[i] \notin T
    BY <1>0, <1>2 DEF RoutingInv, Prospective, TypeOK, FrameType
  <1>4. registered' \subseteq registered \cup {g}
    BY <1>2
  <1> HIDE DEF g, T
  <1> QED
    BY <1>1, <1>2, <1>3, <1>4, NewItemsConfirmed

\* The items of the groups L get new tokens and are starting again.
LEMMA SwapConfirmed ==
  ASSUME RoutingInv, TypeOK', ItemsConfirmed, ActiveShape,
         NEW L \in SUBSET Groups, NEW I \in SUBSET Tokens,
         \A i \in I : \E g \in L : i \in items[g],
         \A g \in L : items[g] \subseteq I,
         NEW fresh, NEW rt, NEW routed,
         SwapTokens(I, fresh, rt, routed), LinkedOrMoved(NewTokens),
         UNCHANGED <<items, registered, heard, feed>>,
         \A h \in registered :
           status'[h] = "ACTIVE" => h \notin L /\ status[h] = "ACTIVE"
  PROVE  ItemsConfirmed' /\ ActiveShape'
  <1>1. SameItems(L, NewTokens)
    <2> SUFFICES ASSUME NEW h \in Groups \ L, NEW i \in items[h]
                 PROVE  /\ native'[i] = native[i] /\ native[i] \notin NewTokens
                        /\ itemStatus'[i] = itemStatus[i]
      BY DEF SameItems
    <2>1. i \in Tokens /\ native[i] \notin NewTokens /\ owner[i] = h
      BY ItemsNotNew
    <2>2. i \notin I
      <3> SUFFICES ASSUME i \in I PROVE FALSE
        OBVIOUS
      <3>1. PICK g \in L : i \in items[g]
        OBVIOUS
      <3> QED
        BY <2>1, <3>1, ItemsNotNew
    <2> QED
      BY <2>1, <2>2 DEF SwapTokens, Restarted
  <1>2. NotActiveIn(L)
    <2>1. \A h \in L : \A i \in items'[h] : itemStatus'[i] = "STARTING"
      BY DEF SwapTokens, Restarted
    <2>2. \A h \in registered' : status'[h] = "ACTIVE" =>
            h \notin L /\ h \in registered /\ status[h] = "ACTIVE"
      OBVIOUS
    <2> QED
      BY <2>1, <2>2 DEF NotActiveIn
  <1>3. heard' = heard
        /\ \A t \in Tokens : feed[t] = "CLOSED" => feed'[t] = "CLOSED"
    OBVIOUS
  <1> QED
    BY <1>1, <1>2, <1>3, ConfirmedKept

LEMMA RestoreConfirmed ==
  ASSUME RoutingInv, TypeOK', ItemsConfirmed, ActiveShape, NEW w \in Restorers,
         LinkedOrMoved(NewTokens),
         NEW st, \A h \in Groups : st[h] = "ACTIVE" => status[h] = "ACTIVE",
         st \in [Groups -> GroupStatuses],
         NEW rt, NEW todo \in SUBSET Groups, RestoreGoesOn(w, st, rt, todo)
  PROVE  ItemsConfirmed' /\ ActiveShape'
  <1> DEFINE live == {g \in todo : st[g] \in ActiveStatuses}
  <1>0. /\ UNCHANGED <<items, registered, heard, feed>>
        /\ registered \subseteq Groups
        /\ \A h \in Groups : items[h] \in SUBSET Tokens
    BY DEF RestoreGoesOn, bloombergVars, RoutingInv, TypeOK
  <1>1. CASE status' = st /\ UNCHANGED <<native, itemStatus>>
    <2>1. SameItems({}, NewTokens)
      BY <1>0, <1>1, ItemsNotNew DEF SameItems
    <2>2. NotActiveIn({})
      BY <1>0, <1>1 DEF NotActiveIn
    <2>3. heard' = heard
          /\ \A t \in Tokens : feed[t] = "CLOSED" => feed'[t] = "CLOSED"
      BY <1>0
    <2>4. {} \in SUBSET Groups
      OBVIOUS
    <2> QED
      BY <2>1, <2>2, <2>3, <2>4, ConfirmedKept
  <1>2. ASSUME NEW g \in live, NEW fresh \in Renumberings(items[g]),
               status' = [st EXCEPT ![g] = "STARTING"],
               SwapTokens(items[g], fresh, rt, TRUE)
        PROVE  ItemsConfirmed' /\ ActiveShape'
    <2>1. g \in Groups /\ {g} \in SUBSET Groups
      OBVIOUS
    <2>2. \A h \in registered :
            status'[h] = "ACTIVE" => h \notin {g} /\ status[h] = "ACTIVE"
      BY <1>0, <1>2, <2>1
    <2>3. /\ \A i \in items[g] : \E h \in {g} : i \in items[h]
          /\ \A h \in {g} : items[h] \subseteq items[g]
      OBVIOUS
    <2>4. items[g] \in SUBSET Tokens
      BY <1>0, <2>1
    <2> HIDE DEF live
    <2> QED
      BY <1>0, <1>2, <2>1, <2>2, <2>3, <2>4, SwapConfirmed
  <1>3. ASSUME NEW fresh \in Renumberings(UNION {items[g] : g \in live}),
               status' = [g \in Groups |-> IF g \in live THEN "FAILED"
                                                         ELSE st[g]],
               SwapTokens(UNION {items[g] : g \in live}, fresh, rt, FALSE)
        PROVE  ItemsConfirmed' /\ ActiveShape'
    <2> DEFINE I == UNION {items[g] : g \in live}
    <2>1. live \in SUBSET Groups /\ I \in SUBSET Tokens
      BY <1>0
    <2>2. /\ \A i \in I : \E g \in live : i \in items[g]
          /\ \A g \in live : items[g] \subseteq I
      OBVIOUS
    <2>3. \A h \in registered :
            status'[h] = "ACTIVE" => h \notin live /\ status[h] = "ACTIVE"
      BY <1>0, <1>3
    <2> HIDE DEF live
    <2>4. SwapTokens(I, fresh, rt, FALSE)
      BY <1>3
    <2> HIDE DEF I
    <2> QED
      BY <1>0, <2>1, <2>2, <2>3, <2>4, SwapConfirmed
  <1> QED
    BY <1>1, <1>2, <1>3 DEF RestoreGoesOn

LEMMA RestoresConfirmed ==
  ASSUME RoutingInv, TypeOK', TokensInv, ItemsConfirmed, ActiveShape,
         NEW w \in Restorers, Restore(w)
  PROVE  ItemsConfirmed' /\ ActiveShape'
  <1>0. TypeOK /\ w \in Workers /\ LinkedOrMoved(NewTokens)
    BY RestoresTokens DEF RoutingInv, Workers
  <1>1. status \in [Groups -> GroupStatuses] /\ registered \in SUBSET Groups
        /\ frame[w].todo \in SUBSET Groups
    BY <1>0 DEF TypeOK, FrameType
  <1>2. ASSUME NEW todo \in SUBSET Groups,
               RestoreGoesOn(w, status, route, todo)
        PROVE  ItemsConfirmed' /\ ActiveShape'
    BY <1>0, <1>1, <1>2, RestoreConfirmed
  <1>3. CASE RestoreBegins(w) /\ session # "CONNECTED"
    <2>1. SameItems({}, NewTokens) /\ NotActiveIn({})
      BY <1>3, ItemsNotNew
      DEF SameItems, NotActiveIn, RestoreBegins, groupVars, itemVars
    <2>2. heard' = heard
          /\ \A t \in Tokens : feed[t] = "CLOSED" => feed'[t] = "CLOSED"
      BY <1>3 DEF RestoreBegins, bloombergVars
    <2>3. {} \in SUBSET Groups
      OBVIOUS
    <2> QED
      BY <1>0, <2>1, <2>2, <2>3, ConfirmedKept
  <1>4. CASE RestoreReturns(w) /\ frame[w].stage # "OK"
    <2> DEFINE st == [status EXCEPT ![frame[w].group] = "FAILED"]
               rt == Unrouted(frame[w].tokens)
    <2>1. st \in [Groups -> GroupStatuses]
          /\ \A h \in Groups : st[h] = "ACTIVE" => status[h] = "ACTIVE"
      BY <1>1 DEF GroupStatuses
    <2>2. RestoreGoesOn(w, st, rt, frame[w].todo)
      BY <1>4 DEF RestoreReturns
    <2> HIDE DEF st, rt
    <2> QED
      BY <1>0, <1>1, <2>1, <2>2, RestoreConfirmed
  <1> QED
    BY <1>1, <1>2, <1>3, <1>4 DEF Restore, RestoreBegins, RestoreReturns

\* What a status event does, if it is routed: the item of the token changes,
\* and the status of its group follows the items.
LEMMA StatusHandled ==
  ASSUME RoutingInv, TypeOK', TokensInv, ItemsConfirmed, ActiveShape,
         NEW t \in Tokens, NEW said \in {"STARTED", "ENDED"},
         NEW new \in {"ACTIVE", "FAILED", "CANCELLED"}, HandleStatus(t, new),
         heard' = [heard EXCEPT ![t] = said],
         new = "ACTIVE" => said = "STARTED",
         new = "CANCELLED" => feed[t] = "CLOSED",
         \A s \in Tokens : feed[s] = "CLOSED" => feed'[s] = "CLOSED",
         UNCHANGED <<registered, items, native, route>>
  PROVE  ItemsConfirmed' /\ ActiveShape'
  <1> DEFINE i == route[t]
             g == owner[i]
             located == i # NoItem /\ g \in registered /\ i \in items[g]
             next == [itemStatus EXCEPT ![i] = new]
  <1>0. TypeOK /\ Owned /\ registered \subseteq Groups
    BY DEF RoutingInv, TypeOK
  <1>1. \A h \in registered : \A j \in items[h] :
          /\ j \in Tokens /\ owner[j] = h /\ native[j] \in Tokens
          /\ j # NoItem
    BY <1>0, ConstantsAssumption DEF TypeOK, Owned, Tokens, NoItem
  <1>2. located => native[i] = t
    <2>1. \A h \in registered : h # NoGroup
      BY <1>0, ConstantsAssumption
    <2> QED
      BY <2>1 DEF RoutingInv, RoutedTokensAreCurrent, Located
  <1>3. IF located
        THEN /\ itemStatus' = next
             /\ status' = [status EXCEPT
                  ![g] = Recomputed({next[j] : j \in items[g]}, @)]
        ELSE UNCHANGED <<itemStatus, status>>
    BY DEF HandleStatus
  <1>4. Linked' = Linked
    BY DEF Linked
  <1>5. ASSUME NEW h \in Linked, NEW j \in items[h], itemStatus'[j] = "ACTIVE"
        PROVE  heard'[native[j]] = "STARTED"
    <2>1. h \in registered /\ route[native[j]] = j
      BY <1>5 DEF Linked
    <2>2. j \in Tokens /\ owner[j] = h /\ native[j] \in Tokens /\ j # NoItem
      BY <1>1, <2>1
    <2>3. CASE native[j] = t
      <3>1. i = j /\ located
        BY <2>1, <2>2, <2>3
      <3>2. itemStatus'[j] = new
        BY <1>0, <1>3, <2>2, <3>1 DEF TypeOK
      <3> QED
        BY <1>0, <1>5, <2>3, <3>2 DEF TypeOK
    <2>4. CASE native[j] # t
      <3>1. itemStatus[j] = "ACTIVE"
        BY <1>0, <1>2, <1>3, <1>5, <2>2, <2>4 DEF TypeOK
      <3>2. heard[native[j]] = "STARTED"
        BY <3>1 DEF ItemsConfirmed
      <3> QED
        BY <1>0, <2>2, <2>4, <3>2 DEF TypeOK
    <2> QED
      BY <2>3, <2>4
  <1>6. ASSUME NEW h \in registered, status'[h] = "ACTIVE"
        PROVE  \/ \A j \in items[h] : itemStatus'[j] = "ACTIVE"
               \/ \A j \in items[h] : feed'[native[j]] = "CLOSED"
    <2>1. status[h] = "ACTIVE" =>
            \/ \A j \in items[h] : itemStatus[j] = "ACTIVE"
            \/ \A j \in items[h] : feed'[native[j]] = "CLOSED"
      BY <1>1 DEF ActiveShape
    <2>2. CASE ~located
      BY <1>3, <1>6, <2>1, <2>2
    <2>3. CASE located /\ h # g
      <3>1. status[h] = "ACTIVE"
        BY <1>0, <1>3, <1>6, <2>3 DEF TypeOK
      <3>2. \A j \in items[h] : j # i /\ j \in Tokens
        BY <1>1, <2>3
      <3>3. \A j \in items[h] : itemStatus'[j] = itemStatus[j]
        BY <1>0, <1>3, <2>3, <3>2 DEF TypeOK
      <3> QED
        BY <2>1, <3>1, <3>3
    <2>4. CASE located /\ h = g
      <3> DEFINE S == {next[j] : j \in items[g]}
      <3>1. Recomputed(S, status[g]) = "ACTIVE" /\ itemStatus' = next
        BY <1>0, <1>3, <1>6, <2>4 DEF TypeOK
      <3>2. i \in Tokens /\ next[i] = new /\ new \in S
        BY <1>0, <1>1, <2>4 DEF TypeOK
      <3>3. \A j \in items[g] : next[j] \in S
        OBVIOUS
      <3>4. \A j \in items[g] : j # i => next[j] = itemStatus[j]
        BY <1>0, <1>1, <2>4 DEF TypeOK
      <3>5. items[g] = {i} => S = {new}
        BY <3>2
      <3> HIDE DEF S, next
      <3>6. \/ S = {"ACTIVE"}
            \/ status[g] = "ACTIVE" /\ "ACTIVE" \notin S /\ S # {"FAILED"}
        BY <3>1 DEF Recomputed
      <3>7. CASE S = {"ACTIVE"}
        BY <2>4, <3>1, <3>3, <3>7
      <3>8. CASE /\ status[g] = "ACTIVE" /\ "ACTIVE" \notin S
                 /\ S # {"FAILED"}
        <4>1. CASE \A j \in items[g] : itemStatus[j] = "ACTIVE"
          <5>1. items[g] = {i}
            BY <2>4, <3>3, <3>4, <3>8, <4>1
          <5>2. new = "CANCELLED"
            BY <3>5, <3>8, <5>1
          <5> QED
            BY <1>2, <2>4, <5>1, <5>2
        <4> QED
          BY <2>1, <2>4, <3>8, <4>1
      <3> QED
        BY <3>6, <3>7, <3>8
    <2> QED
      BY <2>2, <2>3, <2>4
  <1> QED
    BY <1>4, <1>5, <1>6 DEF ItemsConfirmed, ActiveShape

LEMMA EventConfirmed ==
  ASSUME RoutingInv, TypeOK', TokensInv, ItemsConfirmed, ActiveShape,
         NEW t \in Tokens, Event(t)
  PROVE  ItemsConfirmed' /\ ActiveShape'
  <1>0. feed \in [Tokens -> FeedStates]
    BY DEF RoutingInv, TypeOK
  <1>1. UNCHANGED <<registered, items, native, route>>
    BY DEF Event, EventStarted, EventFailed, EventUnsubscribed, routeVars
  <1>2. CASE EventStarted(t)
    BY <1>1, <1>2, StatusHandled DEF EventStarted
  <1>3. CASE EventFailed(t)
    <2>1. /\ heard' = [heard EXCEPT ![t] = "ENDED"]
          /\ feed' = [feed EXCEPT ![t] = "LOST"] /\ feed[t] # "CLOSED"
          /\ HandleStatus(t, "FAILED")
      BY <1>3 DEF EventFailed
    <2>2. \A s \in Tokens : feed[s] = "CLOSED" => feed'[s] = "CLOSED"
      BY <1>0, <2>1
    <2> QED
      BY <1>1, <2>1, <2>2, StatusHandled
  <1>4. CASE EventUnsubscribed(t)
    BY <1>1, <1>4, StatusHandled DEF EventUnsubscribed
  <1> QED
    BY <1>2, <1>3, <1>4 DEF Event

\* The steps that change no item and no status.
LEMMA PlainConfirmed ==
  ASSUME RoutingInv, TypeOK', TokensInv, ItemsConfirmed, ActiveShape,
         \/ \E w \in Callers : \/ CreateReturns(w) \/ RollbackReturns(w)
                               \/ ResubscribeFails(w) \/ Abandon(w)
                               \/ \E n \in ItemCounts : CreateInvalid(w, n)
                               \/ \E g \in Groups, n \in ItemCounts :
                                    ResubscribeBegins(w, g, n)
         \/ \E t \in Tokens : RetryBegins(t)
         \/ RetryReturns
         \/ \E w \in Restorers : Reconnect(w)
         \/ \E w \in Workers : CallReturns(w)
         \/ \E g \in Groups : TimeToLivePasses(g)
         \/ LoseSession \/ TearDown \/ StartNative \/ UNCHANGED vars
  PROVE  ItemsConfirmed' /\ ActiveShape'
  <1> USE DEF groupVars, itemVars, routeVars, bloombergVars
  <1>0. feed \in [Tokens -> FeedStates]
    BY DEF RoutingInv, TypeOK
  <1>1. TokensStep
    BY QuietActions, CreateReturnsTokens, RollbackReturnsTokens,
       ResubscribeFailsTokens, CreateInvalidTokens, ResubscribeBeginsTokens,
       RetryBeginsTokens
  <1>2. /\ UNCHANGED <<items, native, itemStatus, status, heard>>
        /\ registered' \subseteq registered
    BY DEF CreateReturns, RollbackReturns, ResubscribeFails, Abandon,
           CreateInvalid, ResubscribeBegins, RetryBegins, RetryReturns,
           Reconnect, CallReturns, SubscribeCallReturns,
           UnsubscribeCallReturns, TimeToLivePasses, LoseSession, TearDown,
           StartNative, vars
  <1>3. \A t \in Tokens : feed[t] = "CLOSED" => feed'[t] = "CLOSED"
    <2>1. \/ feed' = feed
          \/ LoseSession
          \/ \E w \in Workers : CallReturns(w)
      BY DEF CreateReturns, RollbackReturns, ResubscribeFails, Abandon,
             CreateInvalid, ResubscribeBegins, RetryBegins, RetryReturns,
             Reconnect, TimeToLivePasses, TearDown, StartNative, vars
    <2>2. CASE LoseSession
      BY <1>0, <2>2 DEF LoseSession
    <2>3. ASSUME NEW w \in Workers, SubscribeCallReturns(w), NEW t \in Tokens,
                 feed[t] = "CLOSED"
          PROVE  feed'[t] = "CLOSED"
      BY <2>3 DEF SubscribeCallReturns
    <2>4. ASSUME NEW w \in Workers, UnsubscribeCallReturns(w),
                 NEW t \in Tokens, feed[t] = "CLOSED"
          PROVE  feed'[t] = "CLOSED"
      BY <2>4 DEF UnsubscribeCallReturns
    <2> QED
      BY <2>1, <2>2, <2>3, <2>4 DEF CallReturns
  <1> QED
    BY <1>1, <1>2, <1>3, StillConfirmed

\* A cancellation or an expiry begins.
LEMMA UnsubscribesConfirmed ==
  ASSUME RoutingInv, TypeOK', TokensInv, ItemsConfirmed, ActiveShape,
         NEW w \in Workers, NEW op \in {"CANCEL", "EXPIRE"},
         NEW g \in Groups, NEW final \in EndedStatuses,
         Unsubscribes(w, op, g, final)
  PROVE  ItemsConfirmed' /\ ActiveShape'
  <1>1. TokensStep
    BY UnsubscribesTokens
  <1>2. UNCHANGED <<items, native, heard, feed, registered>>
    BY DEF Unsubscribes, bloombergVars
  <1>3. \/ UNCHANGED <<itemStatus, status>>
        \/ Ends(g, TokensOf(g), final)
    BY DEF Unsubscribes
  <1>4. /\ registered' \subseteq registered
        /\ \A t \in Tokens : feed[t] = "CLOSED" => feed'[t] = "CLOSED"
    BY <1>2
  <1> QED
    BY <1>1, <1>2, <1>3, <1>4, StillConfirmed, EndsConfirmed

\* A cancellation or an expiry ends.
LEMMA UnsubscribedConfirmed ==
  ASSUME RoutingInv, TypeOK', TokensInv, ItemsConfirmed, ActiveShape,
         NEW w \in Workers, NEW op \in {"CANCEL", "EXPIRE"},
         NEW final \in EndedStatuses, Unsubscribed(w, op, final)
  PROVE  ItemsConfirmed' /\ ActiveShape'
  <1>1. TokensStep
    BY UnsubscribedTokens
  <1>2. /\ UNCHANGED <<items, native, heard, feed, registered>>
        /\ Ends(frame[w].group, frame[w].tokens, final)
        /\ frame[w].op = op
    BY DEF Unsubscribed, FailedTokens, Returned, bloombergVars
  <1>3. frame[w].group \in Groups
    BY <1>2 DEF TokensInv, FrameFine
  <1> QED
    BY <1>1, <1>2, <1>3, EndsConfirmed

LEMMA NextConfirmed ==
  ASSUME RoutingInv, TypeOK', TokensInv, ItemsConfirmed, ActiveShape,
         [Next]_vars
  PROVE  ItemsConfirmed' /\ ActiveShape'
  <1>0. Callers \subseteq Workers /\ Sweeper \in Workers
    BY DEF Workers
  <1>1. ASSUME NEW w \in Callers, Client(w)
        PROVE  ItemsConfirmed' /\ ActiveShape'
    <2>1. ASSUME NEW g \in Groups, CancelBegins(w, g)
          PROVE  ItemsConfirmed' /\ ActiveShape'
      BY <1>0, <2>1, UnsubscribesConfirmed DEF CancelBegins, EndedStatuses
    <2> QED
      BY <1>1, <2>1, CreateConfirmed, PlainConfirmed DEF Client
  <1>2. ASSUME NEW w \in Callers, Resume(w)
        PROVE  ItemsConfirmed' /\ ActiveShape'
    <2>1. CASE CancelReturns(w)
      BY <1>0, <2>1, UnsubscribedConfirmed DEF CancelReturns, EndedStatuses
    <2> QED
      BY <1>2, <2>1, CommitConfirmed, PlainConfirmed DEF Resume
  <1>3. ASSUME Sweep PROVE ItemsConfirmed' /\ ActiveShape'
    <2>1. ASSUME NEW g \in Groups, ExpireBegins(g)
          PROVE  ItemsConfirmed' /\ ActiveShape'
      BY <1>0, <2>1, UnsubscribesConfirmed DEF ExpireBegins, EndedStatuses
    <2>2. CASE ExpireReturns
      BY <1>0, <2>2, UnsubscribedConfirmed DEF ExpireReturns, EndedStatuses
    <2> QED
      BY <1>3, <2>1, <2>2, PlainConfirmed DEF Sweep
  <1> QED
    BY <1>1, <1>2, <1>3, PlainConfirmed, RestoresConfirmed, EventConfirmed
    DEF Next

LEMMA ConfirmedInvariant ==
  Spec => [](RoutingInv /\ ConfirmedInv)
  <1>1. Init => RoutingInv /\ ConfirmedInv
    BY InitRouting, InitTokens, InitFeeds, InitConfirmed DEF ConfirmedInv
  <1>2. RoutingInv /\ ConfirmedInv /\ [Next]_vars
          => (RoutingInv /\ ConfirmedInv)'
    <2> SUFFICES ASSUME RoutingInv, ConfirmedInv, [Next]_vars
                 PROVE  RoutingInv' /\ ConfirmedInv'
      OBVIOUS
    <2>1. RoutingInv' /\ TypeOK'
      BY NextRouting DEF RoutingInv
    <2>2. TokensInv' /\ FeedInv'
      BY <2>1, NextFeeds DEF ConfirmedInv
    <2>3. ItemsConfirmed' /\ ActiveShape'
      BY <2>1, NextConfirmed DEF ConfirmedInv
    <2> QED
      BY <2>1, <2>2, <2>3 DEF ConfirmedInv
  <1> QED
    BY <1>1, <1>2, PTL DEF Spec

-----------------------------------------------------------------------------
(* The theorems.                                                           *)

\* A group the registry calls ACTIVE has, for each item, a feed Bloomberg
\* confirmed and has not ended, or one the gateway closed: whatever
\* resubscriptions, restores, cancellations, expiries, retries, abandoned calls
\* and lost sessions are in progress, no confirmation of another feed counts.
THEOREM ConfirmedSafe == Spec => []ActiveMeansConfirmed
  <1>1. RoutingInv /\ ConfirmedInv => ActiveMeansConfirmed
    <2> SUFFICES ASSUME RoutingInv, ConfirmedInv,
                        NEW g \in registered, status[g] = "ACTIVE",
                        NEW i \in items[g]
                 PROVE  \/ heard[native[i]] = "STARTED"
                        \/ feed[native[i]] = "CLOSED"
      BY DEF ActiveMeansConfirmed
    <2>1. g \in Linked
      BY DEF ConfirmedInv, TokensInv, LinkedOrDown, Down, Active, ActiveStatuses
    <2> QED
      BY <2>1 DEF ConfirmedInv, ItemsConfirmed, ActiveShape
  <1> QED
    BY <1>1, ConfirmedInvariant, PTL

\* The items of an active group are unsubscribed together: while one feed is
\* closed at the gateway's request, none of the others is still running.
ClosedTogether ==
  \A g \in registered : Active(g) =>
    \A i, j \in items[g] :
      feed[native[i]] = "CLOSED" => ~Running(native[j], feed, heard)

\* No cancellation, expiry, rollback or retry closes a part of the feeds of a
\* group that is live: it closes all that are running, or the group has ended.
THEOREM ClosedTogetherSafe == Spec => []ClosedTogether
  <1>1. RoutingInv /\ ConfirmedInv => ClosedTogether
    <2> SUFFICES ASSUME RoutingInv, ConfirmedInv,
                        NEW g \in registered, Active(g),
                        NEW i \in items[g], NEW j \in items[g],
                        feed[native[i]] = "CLOSED"
                 PROVE  ~Running(native[j], feed, heard)
      BY DEF ClosedTogether
    <2>1. g \in Linked /\ g \in Groups
      BY DEF ConfirmedInv, TokensInv, LinkedOrDown, Down, RoutingInv, TypeOK
    <2>2. Even(TokensOf(g), feed, heard)
      BY <2>1, TokenTableIs DEF ConfirmedInv, FeedInv, FeedsTogether
    <2>3. native[i] \in TokensOf(g) /\ native[j] \in TokensOf(g)
      BY DEF TokensOf
    <2> QED
      BY <2>2, <2>3 DEF Even
  <1> QED
    BY <1>1, ConfirmedInvariant, PTL
=============================================================================
