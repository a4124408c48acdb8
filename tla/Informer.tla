------------------------------ MODULE Informer ------------------------------
(***************************************************************************)
(* One Kubernetes object as seen through a watch: the sequence of its      *)
(* versions from the one the informer cache holds to the one the API       *)
(* server stores.  Reads go to the head, writes append, and a watch event  *)
(* drops the head.  The resource version of the cached copy is current     *)
(* exactly when nothing is undelivered, so an update carrying it succeeds  *)
(* exactly then (optimistic concurrency).  All of this is controller-      *)
(* runtime and the API server, used by pkg/client/client.go.               *)
(***************************************************************************)
EXTENDS Naturals, Sequences

\* What client.Get returns: the cached version.
Cached(ch) == ch[1]

\* What the API server stores.
Api(ch) == ch[Len(ch)]

\* The cache has caught up: a write with the cached resourceVersion succeeds.
Drained(ch) == Len(ch) = 1

\* A write accepted by the API server.  A write that changes nothing creates no
\* version and no event.
Store(ch, v) == IF v = Api(ch) THEN ch ELSE Append(ch, v)

\* The next watch event reaches the cache.
Deliver(ch) == Tail(ch)

\* A restarted process lists everything afresh.
Relist(ch) == <<Api(ch)>>
=============================================================================
