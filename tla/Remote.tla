------------------------------- MODULE Remote -------------------------------
(* The read-only gRPC service and its typed clients.  The service holds one *)
(* Store behind a tokio mutex; a handler checks and decodes its request,    *)
(* waits for the lock, answers with it held and never awaits after that.    *)
(* tokio hands the lock to its waiters in the order they came.  A client's  *)
(* call can be dropped while it waits, and the server can go down under     *)
(* all of them.  What the Store answers is the other modules' concern: here *)
(* it is a catalog of rows and what a local caller would get from it.       *)
EXTENDS Wire, Integers, FiniteSets

CONSTANTS
  Clients,      \* callers, each with one call at a time
  Catalog,      \* the rows the served store holds; their positions are the ids
  Damaged,      \* ids whose array the file has lost
  Attributes,   \* store attributes: key to text
  Requests,     \* a question by way of RemoteClient, or the bytes of another client
  MayAsk,       \* the requests each client makes
  KeyHolders,   \* the clients that send a configured x-api-key
  MaxReadIds    \* [server] max_read_ids

ASSUME RemoteConstants ==
  /\ MaxReadIds \in Nat
  /\ KeyHolders \subseteq Clients
  /\ \A c \in Clients : MayAsk[c] \subseteq DOMAIN Requests

VARIABLES
  auth,         \* authentication.method of the running server
  queue,        \* calls holding or waiting for the store's lock, in order
  rpc           \* each client's call

callVars == <<auth, queue, rpc>>

NoCall == [at |-> "idle"]

-----------------------------------------------------------------------------
(* The store, asked locally.                                               *)

KnownIds == DOMAIN Catalog

AskedRows(ids) ==
  IF \E i \in DOMAIN ids : ids[i] \notin KnownIds THEN Err("NotFound")
  ELSE Val([i \in DOMAIN ids |-> Catalog[ids[i]]])

IsZoneless(row) == row.meta.reference = "zoneless"

\* reject_mixed_zoning, then each row's check_against
RangeFits(rows, range) ==
  range # Absent => \A i \in DOMAIN rows : IsZoneless(rows[i]) = range.zoneless

read(rows, range) ==
  IF ~RangeFits(rows, range) THEN Err("InvalidParameter")
  ELSE IF \E i \in DOMAIN rows : rows[i].meta.id \in Damaged THEN Err("IntegrityError")
  ELSE Val([i \in DOMAIN rows |->
              [rows[i].data EXCEPT !.bytes = <<rows[i].meta.id,
                 IF range = Absent THEN Absent ELSE <<range.start, range.end>> >>]])

Matches(m, f) ==
  /\ f.type \in {Absent, m.type}
  /\ f.zoneless = Absent \/ f.zoneless = (m.reference = "zoneless")
  /\ f.resolution = Absent \/ f.resolution = m.resolution
  /\ f.features = Absent
     \/ IF f.exact THEN m.features = f.features
        ELSE /\ DOMAIN f.features \subseteq DOMAIN m.features
             /\ \A k \in DOMAIN f.features : m.features[k] = f.features[k]

\* The positions of the rows found; what is listed of them is a function of
\* the positions, which stand for its order.
Found(f) == {i \in KnownIds : Matches(Catalog[i].meta, f)}
Metas(I) == [i \in I |-> Catalog[i].meta]

Static(m) == m.type \notin Forecasts

SummaryRow(m) == [type |-> m.type, initial |-> m.initial, resolution |-> m.resolution,
                  count |-> 1]

Each(s, f(_)) == [i \in DOMAIN s |-> f(s[i])]

\* The answers about the catalog as a whole, narrowed by what each takes of `f`.
\* get_resolutions stands for get_intervals too, and get_counts for the other
\* counts, whose integers travel as they are.
Overview(op, f) ==
  LET found  == Found(f)
      timed  == {i \in found : Catalog[i].meta.resolution # Absent}
      static == {i \in found : Static(Catalog[i].meta)}
  IN  CASE op = "get_static_summary"   -> Each(Metas(static), SummaryRow)
        [] op = "get_forecast_summary" -> Each(Metas(found \ static), SummaryRow)
        [] op = "check_static_consistency" -> Each(Metas(timed \cap static), SummaryRow)
        [] op = "get_resolutions"      -> [i \in timed |-> Catalog[i].meta.resolution]
        [] op = "list_owner_ids"       -> [i \in found |-> Catalog[i].meta.id]
        [] op = "verify_integrity"     -> Damaged
        [] op = "get_counts"           -> Cardinality(found)

Overviews == {"get_static_summary", "get_forecast_summary", "check_static_consistency",
              "get_resolutions", "list_owner_ids", "verify_integrity", "get_counts"}
Ops == Overviews \cup {"list_metadata", "has_any_time_series", "list_metadata_by_ids",
                         "get_metadata_by_id", "association_exists", "read_by_id",
                         "read_by_ids", "get_store_attribute", "list_store_attributes"}
Summaries == {"get_static_summary", "get_forecast_summary", "check_static_consistency"}

\* The answer to a question: op, ids, filter, range, key.
Asked(q) ==
  CASE q.op = "list_metadata"        -> Val(Metas(Found(q.filter)))
    [] q.op = "has_any_time_series"  -> Val(Found([q.filter EXCEPT !.exact = TRUE]) # {})
    [] q.op \in Overviews            -> Val(Overview(q.op, q.filter))
    [] q.op = "list_metadata_by_ids" ->
         LET rows == AskedRows(q.ids)
         IN  IF IsErr(rows) THEN rows ELSE Val([i \in DOMAIN rows.val |-> rows.val[i].meta])
    [] q.op = "get_metadata_by_id"   ->
         Val(IF q.ids[1] \in KnownIds THEN Catalog[q.ids[1]].meta ELSE Absent)
    [] q.op = "association_exists"   -> Val(q.ids[1] \in KnownIds)
    [] q.op \in {"read_by_id", "read_by_ids"} ->
         LET rows == AskedRows(q.ids)
         IN  IF IsErr(rows) THEN rows ELSE read(rows.val, q.range)
    [] q.op = "get_store_attribute"  ->
         Val(IF q.key \in DOMAIN Attributes THEN Attributes[q.key] ELSE Absent)
    [] q.op = "list_store_attributes" -> Val(Attributes)

-----------------------------------------------------------------------------
(* The request, from RemoteClient to the handler.                          *)

EncodeFilter(f) ==
  [type       |-> OptText(f.type, ts_type_to_i32),
   zoneless   |-> f.zoneless,
   resolution |-> OptText(f.resolution, iso8601_of),
   features   |-> OptText(f.features, features_to_pb)]

\* Both bounds or neither; their spelling goes beside them.
EncodeRange(r) ==
  IF r = Absent THEN [start |-> Absent, end |-> Absent, bounds_zoneless |-> Absent]
  ELSE [start |-> to_rfc3339(r.start), end |-> to_rfc3339(r.end),
        bounds_zoneless |-> r.zoneless]

Request(q) ==
  [op |-> q.op, ids |-> q.ids, filter |-> EncodeFilter(q.filter),
   range |-> EncodeRange(q.range), key |-> q.key]

\* filter_from_list_req, and the literal filter of has_any_time_series.
filter_from_list_req(op, w) ==
  LET type  == OptRead(w.type, ts_type_from_i32)
      res   == opt_period(w.resolution)
      feats == OptRead(w.features, features_from_pb)
  IN  IF AnyErr(<<type, res, feats>>) THEN Err("Convert")
      ELSE Val([type |-> type.val, zoneless |-> w.zoneless, resolution |-> res.val,
                features |-> feats.val, exact |-> op = "has_any_time_series"])

\* Fault: every bound is taken for an instant.
bounds_are_instants(w) ==
  CASE w.start # Absent /\ w.end # Absent ->
         LET s == rfc3339(w.start)
             e == rfc3339(w.end)
         IN  IF AnyErr(<<s, e>>) THEN Err("Convert")
             ELSE Val([start |-> s.val, end |-> e.val, zoneless |-> FALSE])
    [] w.start = Absent /\ w.end = Absent -> Val(Absent)
    [] OTHER -> Err("Convert")

\* An absent spelling means the bounds are instants.
parse_time_range(w) ==
  CASE w.start # Absent /\ w.end # Absent ->
         LET s == rfc3339(w.start)
             e == rfc3339(w.end)
         IN  IF AnyErr(<<s, e>>) THEN Err("Convert")
             ELSE Val([start |-> s.val, end |-> e.val,
                       zoneless |-> IF w.bounds_zoneless = Absent THEN FALSE
                                    ELSE w.bounds_zoneless])
    [] w.start = Absent /\ w.end = Absent -> Val(Absent)
    [] OTHER -> Err("Convert")

OverCeiling(w) == w.op = "read_by_ids" /\ Len(w.ids) > MaxReadIds

\* The ceiling and the conversions, before the lock.
Rejection(w) ==
  IF OverCeiling(w) THEN "resource_exhausted"
  ELSE IF AnyErr(<<filter_from_list_req(w.op, w.filter), parse_time_range(w.range)>>)
       THEN "invalid_argument"
  ELSE "none"

Decoded(w) ==
  [op |-> w.op, ids |-> w.ids, key |-> w.key,
   filter |-> filter_from_list_req(w.op, w.filter).val,
   range |-> parse_time_range(w.range).val]

-----------------------------------------------------------------------------
(* What there is to ask about, and what is asked.                          *)

ASSUME AbsentIsNothing ==
  /\ Absent \notin Int
  /\ Absent \notin BOOLEAN
  /\ Absent \notin [rfc3339 : Nat]
  /\ Absent \notin [iso : Nat]

Option(S) == S \cup {Absent}

IsFeatures(f) ==
  /\ f = [k \in DOMAIN f |-> f[k]]
  /\ f # Absent
  /\ features_to_pb(f) # Absent
  /\ \A k \in DOMAIN f : f[k] # Absent

\* A row as the catalog reads it.
IsMeta(m) ==
  /\ m = [id |-> m.id, type |-> m.type, initial |-> m.initial, resolution |-> m.resolution,
          timestamps |-> m.timestamps, percentiles |-> m.percentiles, features |-> m.features,
          basis |-> m.basis, reference |-> m.reference, app |-> m.app]
  /\ m # Absent
  /\ m.type \in Types
  /\ m.initial \in Option(Nat) /\ m.resolution \in Option(Nat)
  /\ m.timestamps \in Option(Seq(Nat))
  /\ m.percentiles \in Option(Seq(Nat) \ {<<>>})
  /\ IsFeatures(m.features)
  /\ m.basis \in Option(Tokens) /\ m.reference \in Option(Tokens)

\* A series as a read builds it: a view is read as the forecast it describes,
\* and only the fields of its type are there.
IsData(d) ==
  /\ d = [type |-> d.type, initial |-> d.initial, resolution |-> d.resolution,
          timestamps |-> d.timestamps, count |-> d.count, percentiles |-> d.percentiles,
          scenarios |-> d.scenarios, shape |-> d.shape, bytes |-> d.bytes,
          basis |-> d.basis, reference |-> d.reference, app |-> d.app]
  /\ d.type \in Types \ {"DeterministicSingleTimeSeries"}
  /\ IF d.type \in IrregularTypes
     THEN d.initial = Absent /\ d.resolution = Absent /\ d.timestamps \in Seq(Nat)
     ELSE d.timestamps = Absent
  /\ d.type \notin Forecasts => d.count = Absent
  /\ d.type # "Probabilistic" => d.percentiles = Absent
  /\ d.type # "Scenarios" => d.scenarios = Absent
  /\ d.basis \in Option(Tokens) /\ d.reference \in Option(Tokens)
  /\ ConstructorAccepts(d)

\* A question as RemoteClient's methods take it.
IsQuestion(q) ==
  /\ q = [op |-> q.op, ids |-> q.ids, filter |-> q.filter, range |-> q.range, key |-> q.key]
  /\ q.op \in Ops
  /\ q.filter = [type |-> q.filter.type, zoneless |-> q.filter.zoneless,
                 resolution |-> q.filter.resolution, features |-> q.filter.features,
                 exact |-> FALSE]
  /\ q.filter.type \in Option(Types)
  /\ q.filter.resolution \in Option(Nat)
  /\ q.filter.features = Absent \/ IsFeatures(q.filter.features)
  /\ q.range \in Option([start : Nat, end : Nat, zoneless : BOOLEAN])

\* Bytes that are no question: half a range, a text that is no instant or
\* period, a type no build knows, a feature value with no arm set.
IsMalformed(w) ==
  \/ (w.range.start = Absent) # (w.range.end = Absent)
  \/ /\ w.range.start # Absent /\ w.range.end # Absent
     /\ ~IsText(w.range.start, "rfc3339") \/ ~IsText(w.range.end, "rfc3339")
  \/ w.filter.type # Absent /\ w.filter.type \notin 0 .. Len(Codes) - 1
  \/ w.filter.resolution # Absent /\ ~IsText(w.filter.resolution, "iso")
  \/ w.filter.features # Absent /\ \E k \in DOMAIN w.filter.features :
                                     w.filter.features[k].arm = Absent

ASSUME RowsAreSound ==
  \A i \in KnownIds : IsMeta(Catalog[i].meta) /\ IsData(Catalog[i].data)

ASSUME RequestsAreEither ==
  \A n \in DOMAIN Requests :
    IF "raw" \in DOMAIN Requests[n]
    THEN /\ "asks" \notin DOMAIN Requests[n]
         /\ IsMalformed(Requests[n].raw)
         /\ Requests[n].raw.filter.type \in Option(Int)
    ELSE "asks" \in DOMAIN Requests[n] /\ IsQuestion(Requests[n].asks)

-----------------------------------------------------------------------------
(* The response, from the handler to RemoteClient.                         *)

Status(code) == [status |-> code]

map_err(class) ==
  CASE class = "NotFound"         -> "not_found"
    [] class = "InvalidParameter" -> "invalid_argument"
    [] class = "IntegrityError"   -> "data_loss"
    [] OTHER                      -> "internal"

\* read_by_id asks for one id and takes the one series.
Encoded(op, v) ==
  CASE op \in {"list_metadata", "list_metadata_by_ids"} -> Each(v, metadata_to_pb)
    [] op = "get_metadata_by_id"         -> metadata_to_pb(v)
    [] op \in {"read_by_id", "read_by_ids"} -> Each(v, time_series_data_to_read_resp)
    [] op \in Summaries                  -> Each(v, summary_row_to_pb)
    [] op = "get_resolutions"            -> Each(v, iso8601_of)
    [] OTHER                             -> v

Response(w) ==
  LET a == Asked(Decoded(w))
  IN  IF IsErr(a) THEN Status(map_err(a.err))
      ELSE IF w.op = "get_metadata_by_id" /\ a.val = Absent THEN Status("not_found")
      ELSE [body |-> Encoded(w.op, a.val)]

map_status(code) ==
  CASE code = "not_found"        -> "NotFound"
    [] code = "invalid_argument" -> "InvalidParameter"
    [] code = "data_loss"        -> "IntegrityError"
    [] OTHER                     -> "ConnectionError"

\* A list is refused whole when one of its items is.
EachRead(s, f(_)) ==
  IF AnyErr(Each(s, f)) THEN Err("IntegrityError") ELSE Val([i \in DOMAIN s |-> f(s[i]).val])

Received(op, resp) ==
  IF "status" \in DOMAIN resp THEN Err(map_status(resp.status))
  ELSE CASE op \in {"list_metadata", "list_metadata_by_ids"} ->
              EachRead(resp.body, metadata_from_pb)
         [] op = "get_metadata_by_id" ->
              LET m == metadata_from_pb(resp.body) IN IF IsErr(m) THEN Err("IntegrityError") ELSE m
         [] op \in {"read_by_id", "read_by_ids"} ->
              EachRead(resp.body, read_resp_to_time_series_data)
         [] op \in Summaries -> EachRead(resp.body, summary_row_from_pb)
         [] op = "get_resolutions" -> EachRead(resp.body, period_from_iso)
         [] OTHER -> Val(resp.body)

-----------------------------------------------------------------------------
(* A call.                                                                 *)

At(c, at) == rpc[c].at = at

\* Each request as it travels, what stops it before the lock and what the store
\* makes of it otherwise: the store is open read-only, so none of it changes.
Wires      == [n \in DOMAIN Requests |->
                 IF "asks" \in DOMAIN Requests[n] THEN Request(Requests[n].asks)
                 ELSE Requests[n].raw]
Rejections == [n \in DOMAIN Requests |-> Rejection(Wires[n])]
Responses  == [n \in DOMAIN Requests |->
                 IF Rejections[n] = "none" THEN Response(Wires[n]) ELSE Status(Rejections[n])]
Answers    == [n \in DOMAIN Requests |-> Received(Wires[n].op, Responses[n])]

Send(c, n) ==
  /\ At(c, "idle")
  /\ rpc' = [rpc EXCEPT ![c] = [at |-> "sent", req |-> n]]
  /\ UNCHANGED <<auth, queue>>

\* `code` is "none" for the response of the handler itself.
Replied(call, code) == [at |-> "replied", req |-> call.req, code |-> code]

\* The interceptor, and the handler up to store.lock().await.
Admit(c) ==
  /\ At(c, "sent")
  /\ IF auth = "api_key" /\ c \notin KeyHolders
     THEN rpc' = [rpc EXCEPT ![c] = Replied(@, "unauthenticated")] /\ UNCHANGED queue
     ELSE IF Rejections[rpc[c].req] # "none"
     THEN rpc' = [rpc EXCEPT ![c] = Replied(@, "none")] /\ UNCHANGED queue
     ELSE rpc' = [rpc EXCEPT ![c].at = "waiting"] /\ queue' = Append(queue, c)
  /\ UNCHANGED auth

\* Fault: whoever asks when the lock is free gets it.
Barges(c) == \A d \in Clients : ~At(d, "running")

\* The lock goes to the first in line.
Turn(c) == Head(queue) = c

Lock(c) ==
  /\ At(c, "waiting")
  /\ Turn(c)
  /\ rpc' = [rpc EXCEPT ![c].at = "running"]
  /\ UNCHANGED <<auth, queue>>

Leave(c) == SelectSeq(queue, LAMBDA d : d # c)

\* The store call and the response, under the lock; or the disk fails it.
Serve(c) ==
  /\ At(c, "running")
  /\ \E code \in {"none", map_err("Io")} : rpc' = [rpc EXCEPT ![c] = Replied(@, code)]
  /\ queue' = Leave(c)
  /\ UNCHANGED auth

\* The caller has its answer and is done with it.
Take(c) ==
  /\ At(c, "replied")
  /\ rpc' = [rpc EXCEPT ![c] = NoCall]
  /\ UNCHANGED <<auth, queue>>

\* The caller drops its future: the handler's is dropped where it awaits, and a
\* waiter that had its turn gives it up.
Abandon(c) ==
  /\ rpc[c].at \in {"sent", "waiting"}
  /\ rpc' = [rpc EXCEPT ![c] = NoCall]
  /\ queue' = Leave(c)
  /\ UNCHANGED auth

\* The process ends and another is started, on a configuration that validates.
Restart ==
  /\ \E d \in Clients : rpc[d].at \notin {"idle", "replied"}
  /\ auth' \in {"none", "api_key"}
  /\ queue' = <<>>
  /\ rpc' = [c \in Clients |-> IF rpc[c].at \in {"idle", "replied"} THEN rpc[c]
                               ELSE Replied(rpc[c], "unavailable")]

CallsInit ==
  /\ auth \in {"none", "api_key"}
  /\ queue = <<>>
  /\ rpc = [c \in Clients |-> NoCall]

CallsNext ==
  \/ \E c \in Clients :
       \/ \E n \in MayAsk[c] : Send(c, n)
       \/ Admit(c) \/ Lock(c) \/ Serve(c)
       \/ Take(c) \/ Abandon(c)
  \/ Restart

\* tokio runs every task that is ready; a caller need not call, collect or hang
\* up, and the server need not go down.
Fairness == \A c \in Clients : WF_callVars(Admit(c)) /\ WF_callVars(Lock(c)) /\ WF_callVars(Serve(c))

CallsSpec == CallsInit /\ [][CallsNext]_callVars /\ Fairness

-----------------------------------------------------------------------------
\* The rows a remote caller sees are the local ones, except that an irregular
\* series without instants comes back with no list of them.
SeenRow(m) == [m EXCEPT !.timestamps = Unlisted(Listed(@))]

\* A read comes back without application_data, which stays on the row.
SeenData(d) == [d EXCEPT !.app = Absent]

Seen(op, v) ==
  CASE op \in {"list_metadata", "list_metadata_by_ids"} -> Each(v, SeenRow)
    [] op = "get_metadata_by_id"         -> SeenRow(v)
    [] op \in {"read_by_id", "read_by_ids"} -> Each(v, SeenData)
    [] OTHER                             -> v

Expected ==
  [n \in DOMAIN Requests |->
     IF "raw" \in DOMAIN Requests[n] THEN Err("InvalidParameter")
     ELSE LET q     == Requests[n].asks
              local == Asked(q)
          IN  IF q.op = "get_metadata_by_id" /\ local = Val(Absent) THEN Err("NotFound")
              ELSE IF IsErr(local) THEN local
              ELSE Val(Seen(q.op, local.val))]

\* A question asked through the service has the answer it has locally, whatever
\* else is in flight: the rows and series in the order asked, the slice the bounds
\* name in the spelling they were given, the same refusal for a stale id, a bound
\* the series cannot answer and a damaged array; and a call that fails for the
\* connection's sake says so (service.rs, client.rs, convert.rs).
RemoteTellsTheSame ==
  \A c \in Clients : At(c, "replied") =>
    LET n      == rpc[c].req
        answer == IF rpc[c].code = "none" THEN Answers[n] ELSE Err(map_status(rpc[c].code))
    IN  IF answer = Err("ConnectionError") THEN rpc[c].code # "none" \/ OverCeiling(Wires[n])
        ELSE answer = Expected[n]

\* Every call that is not dropped is answered, however many others keep calling
\* and however often one of them hangs up in the queue (service.rs:90, 182-498).
EveryCallIsAnswered ==
  \A c \in Clients : At(c, "sent") ~> rpc[c].at \in {"replied", "idle"}
=============================================================================
