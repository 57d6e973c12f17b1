---------------------------- MODULE NacosClient ----------------------------
(***************************************************************************)
(* The Nacos client around the sink (pkg/nacos/client.go, batch.go and     *)
(* sdk.go): how a snapshot is cut into batches, how long listings are read *)
(* page by page, how a request moves on to the next server, and how a      *)
(* client is built, probed and closed.                                     *)
(***************************************************************************)
EXTENDS Naturals, Sequences

Least(S) == CHOOSE n \in S : \A m \in S : n <= m
Greatest(S) == CHOOSE n \in S : \A m \in S : m <= n

-----------------------------------------------------------------------------
(***************************************************************************)
(* splitPersistentBatchesForScope.  An item is a record [status, app,      *)
(* cluster, n], n telling equal items apart; the namespace and the group   *)
(* are those of the client.                                                *)
(***************************************************************************)
\* persistentBatchOperation; an item of another status is not pushed.
persistentBatchOperation(item) ==
    IF item.status \in {1, 2} THEN "register" ELSE IF item.status = 3 THEN "deregister" ELSE "none"

BatchKey(item) == [app |-> item.app, cluster |-> item.cluster, operation |-> persistentBatchOperation(item)]

\* Mutant: a batch takes one item more than it may.
Overfull(batch, maxItems) == Len(batch.items) > maxItems

\* A batch that takes no further item.
Full(batch, maxItems) == Len(batch.items) >= maxItems

\* One item: it joins the last batch of its key, or begins a new one.
Admit(batches, item, maxItems) ==
    LET same == {b \in DOMAIN batches : batches[b].key = BatchKey(item)} IN
    IF persistentBatchOperation(item) = "none" THEN batches
    ELSE IF same = {} \/ Full(batches[Greatest(same)], maxItems)
    THEN Append(batches, [key |-> BatchKey(item), items |-> <<item>>])
    ELSE [batches EXCEPT ![Greatest(same)].items = Append(@, item)]

Limit(maxItems, most) == IF maxItems < 1 THEN 1 ELSE IF maxItems > most THEN most ELSE maxItems

splitPersistentBatches(list, maxItems, most) ==
    LET after[n \in 0..Len(list)] ==
            IF n = 0 THEN <<>> ELSE Admit(after[n - 1], list[n], Limit(maxItems, most))
    IN after[Len(list)]

\* The batches of the first n items.  Every item that is pushed has a place, a
\* batch of its key and a position in it, which holds it; there is nothing
\* else in the batches, the items of one key come in the order of the list,
\* and only the last batch of a key has room left.
Cut(list, n, batches, limit) ==
    LET pushed == {i \in 1..n : persistentBatchOperation(list[i]) # "none"}
        slots  == {s \in (DOMAIN batches) \X (1..limit) : s[2] <= Len(batches[s[1]].items)}
    IN /\ \A b \in DOMAIN batches : Len(batches[b].items) \in 1..limit
       /\ \A a, b \in DOMAIN batches : a < b /\ batches[a].key = batches[b].key => Len(batches[a].items) = limit
       /\ \E place \in [pushed -> slots] :
            /\ \A s \in slots : \E i \in pushed : place[i] = s
            /\ \A i \in pushed : LET b == batches[place[i][1]] IN
                   b.key = BatchKey(list[i]) /\ b.items[place[i][2]] = list[i]
            /\ \A i, j \in pushed : i < j /\ BatchKey(list[i]) = BatchKey(list[j]) =>
                   \/ place[i][1] < place[j][1]
                   \/ place[i][1] = place[j][1] /\ place[i][2] < place[j][2]

\* What cutting a list into batches promises.
CutsExactly(list, maxItems, most) ==
    Cut(list, Len(list), splitPersistentBatches(list, maxItems, most), Limit(maxItems, most))

\* batchApplyError: the error of several items is permanent when all are, and
\* it protects the scopes of all of them.
Permanent(failures) == failures # {} /\ \A f \in failures : f.permanent
failedScopes(failures) == {f.scope : f \in failures}

-----------------------------------------------------------------------------
(***************************************************************************)
(* Reading a listing page by page.  A server is a record [names, clamp,    *)
(* declares, fails]: what it lists, the largest page it returns, whether   *)
(* it declares the total, and the pages it cannot answer.                  *)
(***************************************************************************)
Page(server, page, size) ==
    LET step == Least({size, server.clamp}) IN
    SubSeq(server.names, (page - 1) * step + 1, Least({page * step, Len(server.names)}))
Count(server) == IF server.declares THEN Len(server.names) ELSE 0

\* The names of the first pages, one page after the other.
Collected(server, page, size) ==
    LET names[p \in 0..page] == IF p = 0 THEN <<>> ELSE names[p - 1] \o Page(server, p, size)
    IN names[page]

\* Mutant: a short page ends the walk whatever the declared total is.
StopsAtShortPage(server, page, size) == Len(Page(server, page, size)) < size

\* The walk of listServicesSDK and of ListCatalogInstances ends here: the
\* declared total has been collected, or no total is declared and the page is
\* short.
StopsAt(server, page, size) ==
    LET count == Count(server) IN
    \/ /\ Len(Page(server, page, size)) < size
       /\ ~(count > 0 /\ Len(Collected(server, page, size)) < count)
    \/ /\ Len(Page(server, page, size)) = size
       /\ count > 0 /\ Len(Collected(server, page, size)) >= count

\* The walk of listServicesHTTP ends with the first short page.
StopsAtHTTP(server, page, size) == Len(Page(server, page, size)) < size

\* What a walk answers that may end with one of the pages ends: it fails on the
\* first page that fails, and when the pages run out.
Failed == [ok |-> FALSE]
Walk(server, size, ends) ==
    IF ends = {} \/ server.fails \cap 1..Least(ends) # {} THEN Failed
    ELSE [ok |-> TRUE, names |-> Collected(server, Least(ends), size)]

listServicesSDK(server, size, maxPages) ==
    Walk(server, size, {p \in 1..maxPages : StopsAt(server, p, size)})
listServicesHTTP(server, size, maxPages) ==
    Walk(server, size, {p \in 1..maxPages : StopsAtHTTP(server, p, size)})

\* A listing that is answered is the whole listing.  A server that clamps the
\* page size must declare the total for that; the HTTP service list ignores
\* the total and holds only for servers that do not clamp.  With pages enough
\* for everything, only a failing page fails a listing.
ListsAll(server, size, maxPages) ==
    LET sdk  == listServicesSDK(server, size, maxPages)
        http == listServicesHTTP(server, size, maxPages)
    IN /\ sdk.ok /\ (server.declares \/ size <= server.clamp) => sdk.names = server.names
       /\ http.ok /\ size <= server.clamp => http.names = server.names
       /\ server.fails = {} /\ Len(server.names) < maxPages * Least({size, server.clamp}) => sdk.ok /\ http.ok

-----------------------------------------------------------------------------
(***************************************************************************)
(* doForm and doJSON: the servers in order.  A server is down (it cannot   *)
(* be reached, its answer is cut off, or it answers 5xx), refuses (4xx),   *)
(* gives another answer that is not 200 (a redirection, say), or accepts.  *)
(* applies: a write that reaches it takes effect.                          *)
(***************************************************************************)
Decisive(servers) == {n \in DOMAIN servers : servers[n].answer # "down"}

doForm(servers) == IF Decisive(servers) = {} THEN "down" ELSE servers[Least(Decisive(servers))].answer

\* The servers the request was sent to.
SentTo(servers) == IF Decisive(servers) = {} THEN DOMAIN servers ELSE 1..Least(Decisive(servers))
Applied(servers) == {n \in SentTo(servers) : servers[n].answer = "ok" \/ servers[n].applies}

\* APIError.Permanent: only a refusal is final; a server that is down and an
\* answer of another kind are tried again.
PermanentAnswer(answer) == answer = "refused"

-----------------------------------------------------------------------------
(***************************************************************************)
(* NewClientWithConfig.  A configuration is a record [sdk, policy,         *)
(* verifier, admin, factory, address, facade]; factory is what the         *)
(* ClusterAdminFactory does, address and facade tell whether the addresses *)
(* are accepted and newSDKNamingFacade succeeds.  The answer lists what    *)
(* the client holds open, or what construction leaves open when it fails.  *)
(***************************************************************************)
Policies == {"", "deployment-owned", "admin-managed", "verified"}
effectiveHealthPolicy(policy) == IF policy = "" THEN "deployment-owned" ELSE policy

UsesFactory(cfg) ==
    /\ cfg.sdk /\ effectiveHealthPolicy(cfg.policy) = "admin-managed"
    /\ ~cfg.admin /\ cfg.factory # "none"

Refused == [ok |-> FALSE, open |-> {}]
NewClientWithConfig(cfg) ==
    LET policy == effectiveHealthPolicy(cfg.policy)
        admin  == IF cfg.admin \/ UsesFactory(cfg) THEN {"admin"} ELSE {}
        made   == IF UsesFactory(cfg) THEN {"admin"} ELSE {}
    IN IF cfg.policy \notin Policies \/ (cfg.sdk /\ policy = "verified" /\ ~cfg.verifier) THEN Refused
       ELSE IF UsesFactory(cfg) /\ cfg.factory # "ok" THEN Refused
       ELSE IF ~cfg.address \/ (cfg.sdk /\ ~cfg.facade) THEN [ok |-> FALSE, open |-> made]
       ELSE [ok |-> TRUE, open |-> admin \cup (IF cfg.sdk THEN {"sdk"} ELSE {})]

\* CloseContext, once: the admin facade, whether or not that fails, and then
\* the SDK client.
CloseContext(client) == [client EXCEPT !.open = {}]

\* verifyHealthPolicy; disabled: the verifier confirms that Nacos does not
\* check the health of instances itself.
verifyHealthPolicy(cfg, disabled) == cfg.policy = "verified" => cfg.verifier /\ disabled

-----------------------------------------------------------------------------
(***************************************************************************)
(* Readiness.  The environment is a record [disabled, reads, healthy,      *)
(* register, deregister, closes]; reads[n] is what server n answers the    *)
(* read (the SDK, which picks the server itself, sees the first), and the  *)
(* two writes are "ok", "refused", "other", or "down" after or before they *)
(* took effect.  The answer tells which servers are left with the canary.       *)
(***************************************************************************)
\* Mutant: the canary is removed only when its registration was confirmed.
CanaryRemovedIfWritten(env) == env.register.answer = "ok"

\* checkReadinessSDK defers the removal before it registers the canary.
CanaryRemoved(env) == TRUE

Wrote(write) == write.answer = "ok" \/ write.applies

checkReadinessSDK(env) ==
    IF env.reads[1].answer # "ok" \/ ~env.healthy THEN [ready |-> FALSE, canary |-> {}]
    ELSE [ready  |-> env.register.answer = "ok" /\ env.deregister.answer = "ok",
          canary |-> IF Wrote(env.register) /\ ~(CanaryRemoved(env) /\ Wrote(env.deregister))
                     THEN {1} ELSE {}]

\* The HTTP probe pins the canary to the server that answered the read, and
\* removes it only after a registration that succeeded.
checkReadinessHTTP(env) ==
    IF doForm(env.reads) # "ok" THEN [ready |-> FALSE, canary |-> {}]
    ELSE [ready  |-> env.register.answer = "ok" /\ env.deregister.answer = "ok",
          canary |-> IF Wrote(env.register) /\ ~(env.register.answer = "ok" /\ Wrote(env.deregister))
                     THEN {Least(Decisive(env.reads))} ELSE {}]

\* CheckReadinessWithConfig: build, verify, probe, and close in any case; an
\* admin facade that does not close is an error too.
CheckReadinessWithConfig(cfg, env) ==
    LET client == NewClientWithConfig(cfg)
        probe  == IF ~verifyHealthPolicy(cfg, env.disabled) THEN [ready |-> FALSE, canary |-> {}]
                  ELSE IF cfg.sdk THEN checkReadinessSDK(env) ELSE checkReadinessHTTP(env)
    IN IF ~client.ok THEN [ready |-> FALSE, canary |-> {}, open |-> client.open]
       ELSE [ready |-> probe.ready /\ ("admin" \in client.open => env.closes), canary |-> probe.canary, open |-> CloseContext(client).open]

\* The readiness check leaves nothing behind: a client that was built is
\* closed, and the persistent canary is gone whenever its removal took effect,
\* even when the answer to its registration was lost.  The HTTP probe leaves
\* it in that one case, and only on the server that answered the read.  A
\* check that passes has never left anything.
LeavesNothing(cfg, env) ==
    LET check == CheckReadinessWithConfig(cfg, env) IN
    /\ NewClientWithConfig(cfg).ok => check.open = {}
    /\ check.ready => check.canary = {} /\ check.open = {}
    /\ check.canary # {} => ~Wrote(env.deregister) \/ (~cfg.sdk /\ env.register.answer # "ok")
    /\ ~cfg.sdk => \A n \in check.canary : env.reads[n].answer = "ok"
=============================================================================
