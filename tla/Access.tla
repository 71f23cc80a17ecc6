------------------------------- MODULE Access --------------------------------
(***************************************************************************)
(* A request for one dataset, through authentication (authentication.py),  *)
(* permissions (permissions.py), throttling (throttling.py) and            *)
(* get_object() (views.py), up to its answer: "read" stands for the        *)
(* actions of _API_KEY_ELIGIBLE_ACTIONS, answered from two queries as      *)
(* export and quality do, and "retry" for those of the owner.  Meanwhile   *)
(* keys are issued, revoked, and edited by administrators, and datasets    *)
(* are ingested again, deleted, and made public or private.                *)
(*                                                                         *)
(* The cache with the histories of the throttles is that of one process.   *)
(* A history holds requests in the place of their time stamps.             *)
(***************************************************************************)
EXTENDS Naturals, FiniteSets, Sequences

CONSTANTS
  Dataset, User, Key, Request,
  Anon,       \* the caller without credentials, at its address
  None,       \* no dataset
  OwnerOf,    \* the owner of each dataset
  DatasetOf,  \* the dataset each key is issued for
  Rate,       \* DEFAULT_THROTTLE_RATES, for each scope
  Target,     \* bound: the datasets requested; nothing happens to the others,
  MaxAttempt  \* and these are ingested so many times

Caller == User \cup Key \cup {Anon}

Scope == {"anon", "user", "api_key", "retry"}

ASSUME AccessAssumption ==
  /\ IsFiniteSet(Request)
  /\ User \cap Key = {} /\ Anon \notin User \cup Key
  /\ OwnerOf \in [Dataset -> User]
  /\ DatasetOf \in [Key -> Dataset]
  /\ Rate \in [Scope -> Nat]
  /\ Target \subseteq Dataset
  /\ MaxAttempt \in Nat

VARIABLES
  \* datasets
  live,      \* those there are
  public,    \* those that is_public makes readable by all
  columns,   \* the ingestion each one's columns come from, or 0,
  rows,      \* and the one its rows come from
  doomed,    \* the keys that a deletion under way has deleted with each one
  dying,     \* the datasets with such a deletion
  \* keys
  keyRow,    \* those with a row,
  inactive,  \* and with is_active off
  issued,    \* those that ever had a row
  held,      \* those an administrator's request has loaded
  revoked,   \* those their owners revoked,
  restored,  \* and that an administrator's save inserted again
  \* the cache
  history,   \* of each bucket
  \* requests
  pc, caller, op, target,
  late,      \* whether its key was revoked before it arrived
  at,        \* the throttle it deals with
  copy,      \* the history of its bucket as it was read, without the old
  refused,   \* whether a throttle refused it
  cols,      \* the ingestion whose columns it read
  \* what happened
  old,       \* requests counted more than a minute ago
  counted    \* requests each bucket let through

dataVars == <<live, public, columns, rows, doomed, dying>>
keyVars  == <<keyRow, inactive, issued, held, revoked, restored>>
callVars == <<caller, op, target, late>>
rateVars == <<history, at, copy, refused, old, counted>>
vars     == <<dataVars, keyVars, callVars, rateVars, pc, cols>>

------------------------------------------------------------------------------
\* Authentication

\* IsAuthenticated, for what only owners may do.
Authenticated(c, o) ==
  IF o = "retry" /\ c \notin User THEN "denied" ELSE "throttle"

Arrive(r, c, o, d) ==
  /\ pc[r] = "idle"
  /\ caller' = [caller EXCEPT ![r] = c]
  /\ op' = [op EXCEPT ![r] = o]
  /\ target' = [target EXCEPT ![r] = d]
  /\ late' = [late EXCEPT ![r] = c \in revoked]
  /\ pc' = [pc EXCEPT ![r] = IF c \in Key THEN "lookup" ELSE Authenticated(c, o)]
  /\ UNCHANGED <<dataVars, keyVars, rateVars, cols>>

LookUpKey(r) ==
  /\ pc[r] = "lookup"
  /\ pc' = [pc EXCEPT ![r] =
              IF caller[r] \in keyRow \ inactive THEN "touch"
                                                 ELSE "unauthenticated"]
  /\ UNCHANGED <<dataVars, keyVars, callVars, rateVars, cols>>

\* Mutant: save() without update_fields inserts a row that is gone.
TouchKeyInFull(r) ==
  /\ pc[r] = "touch"
  /\ keyRow' = keyRow \cup {caller[r]}
  /\ pc' = [pc EXCEPT ![r] = Authenticated(caller[r], op[r])]
  /\ UNCHANGED <<dataVars, inactive, issued, held, revoked, restored, callVars,
                 rateVars, cols>>

\* save(update_fields=["last_used_at"]) raises if the row is gone.
TouchKey(r) ==
  /\ pc[r] = "touch"
  /\ pc' = [pc EXCEPT ![r] =
              IF caller[r] \in keyRow THEN Authenticated(caller[r], op[r])
                                      ELSE "error"]
  /\ UNCHANGED <<dataVars, keyVars, callVars, rateVars, cols>>

------------------------------------------------------------------------------
\* Throttling

\* Mutant: without get_throttles(), a key is throttled by its address.
SharedThrottles(c, o) ==
  IF o = "retry" THEN <<<<"retry", c>>>>
  ELSE IF c \in User THEN <<<<"user", c>>>>
  ELSE <<<<"anon", Anon>>, <<"user", Anon>>>>

\* get_throttles(): the buckets of a request, as <<scope, ident>>.
\* AnonRateThrottle has none for a user.
Throttles(c, o) ==
  IF c \in Key THEN <<<<"api_key", c>>>>
  ELSE IF o = "retry" THEN <<<<"retry", c>>>>
  ELSE IF c \in User THEN <<<<"user", c>>>>
  ELSE <<<<"anon", c>>, <<"user", c>>>>

Bucket == Scope \X Caller

BucketOf(r) == Throttles(caller[r], op[r])[at[r]]

Full(b, seen) == Cardinality(seen) >= Rate[b[1]]

\* Mutant: off by one.
AskOnceMore(r, refusal) ==
  IF at[r] <= Len(Throttles(caller[r], op[r]))
    THEN /\ at' = [at EXCEPT ![r] = @ + 1]
         /\ pc' = [pc EXCEPT ![r] = "throttle"]
    ELSE /\ pc' = [pc EXCEPT ![r] = IF refusal THEN "throttled" ELSE "get"]
         /\ UNCHANGED at

\* All throttles are asked, even if one of them refuses.
Ask(r, refusal) ==
  IF at[r] < Len(Throttles(caller[r], op[r]))
    THEN /\ at' = [at EXCEPT ![r] = @ + 1]
         /\ pc' = [pc EXCEPT ![r] = "throttle"]
    ELSE /\ pc' = [pc EXCEPT ![r] = IF refusal THEN "throttled" ELSE "get"]
         /\ UNCHANGED at

\* allow_request(): the history is read from the cache, ...
Refuse(r) ==
  /\ pc[r] = "throttle"
  /\ Full(BucketOf(r), history[BucketOf(r)] \ old)
  /\ refused' = [refused EXCEPT ![r] = TRUE]
  /\ Ask(r, TRUE)
  /\ UNCHANGED <<dataVars, keyVars, callVars, history, copy, old, counted, cols>>

Allow(r) ==
  /\ pc[r] = "throttle"
  /\ ~Full(BucketOf(r), history[BucketOf(r)] \ old)
  /\ copy' = [copy EXCEPT ![r] = history[BucketOf(r)] \ old]
  /\ pc' = [pc EXCEPT ![r] = "record"]
  /\ UNCHANGED <<dataVars, keyVars, callVars, history, at, refused, old, counted,
                 cols>>

\* ... and written back with this request in front, over what others wrote.
Record(r) ==
  LET b == BucketOf(r)
  IN  /\ pc[r] = "record"
      /\ history' = [history EXCEPT ![b] = copy[r] \cup {r}]
      /\ copy' = [copy EXCEPT ![r] = {}]
      /\ counted' = [counted EXCEPT ![b] = @ \cup {r}]
      /\ Ask(r, refused[r])
      /\ UNCHANGED <<dataVars, keyVars, callVars, refused, old, cols>>

\* A minute passes.
Age(r) ==
  /\ r \notin old
  /\ \E b \in Bucket : r \in counted[b]
  /\ old' = old \cup {r}
  /\ UNCHANGED <<dataVars, keyVars, callVars, history, at, copy, refused, counted,
                 pc, cols>>

------------------------------------------------------------------------------
\* get_object() and the answer

Owns(c, d) == OwnerOf[d] = c

\* Mutant: _readable_dataset_queryset() starts without Q(is_public=True).
OwnQueryset(c, o, d) ==
  /\ d \in live
  /\ \/ o = "read" /\ c \in Key /\ DatasetOf[c] = d
     \/ c \in User /\ Owns(c, d)

\* get_queryset() and _readable_dataset_queryset().
InQueryset(c, o, d) ==
  /\ d \in live
  /\ \/ o = "read" /\ d \in public
     \/ o = "read" /\ c \in Key /\ DatasetOf[c] = d
     \/ c \in User /\ Owns(c, d)

\* IsOwner, and HasDatasetReadAccess.
HasObjectPermission(c, o, d) ==
  IF o # "read" THEN Owns(c, d)
  ELSE \/ d \in public
       \/ IF c \in User THEN Owns(c, d) ELSE c \in Key /\ DatasetOf[c] = d

Fetched(r) ==
  IF op[r] = "read" THEN "columns" ELSE "ok"

GetObject(r) ==
  LET c == caller[r]
      d == target[r]
  IN  /\ pc[r] = "get"
      /\ pc' = [pc EXCEPT ![r] =
                  IF ~InQueryset(c, op[r], d) THEN "notfound"
                  ELSE IF ~HasObjectPermission(c, op[r], d) THEN "forbidden"
                  ELSE Fetched(r)]
      /\ UNCHANGED <<dataVars, keyVars, callVars, rateVars, cols>>

QueryColumns(r) ==
  /\ pc[r] = "columns"
  /\ cols' = [cols EXCEPT ![r] = columns[target[r]]]
  /\ pc' = [pc EXCEPT ![r] = "rows"]
  /\ UNCHANGED <<dataVars, keyVars, callVars, rateVars>>

\* The answer has the rows there are now.
QueryRows(r) ==
  /\ pc[r] = "rows"
  /\ pc' = [pc EXCEPT ![r] = "ok"]
  /\ cols' = [cols EXCEPT ![r] = 0]
  /\ UNCHANGED <<dataVars, keyVars, callVars, rateVars>>

------------------------------------------------------------------------------
\* Keys and datasets meanwhile

\* POST api-keys/: the foreign key needs the dataset.
Issue(k) ==
  /\ k \notin issued
  /\ DatasetOf[k] \in live
  /\ keyRow' = keyRow \cup {k}
  /\ issued' = issued \cup {k}
  /\ UNCHANGED <<dataVars, inactive, held, revoked, restored, callVars, rateVars,
                 pc, cols>>

\* DELETE api-keys/{key_pk}/.
Revoke(k) ==
  /\ k \in keyRow
  /\ keyRow' = keyRow \ {k}
  /\ revoked' = revoked \cup {k}
  /\ UNCHANGED <<dataVars, inactive, issued, held, restored, callVars, rateVars,
                 pc, cols>>

\* The change form of DatasetApiKeyAdmin loads the key, and saves all of it:
\* a row that is gone is inserted again.
AdminLoad(k) ==
  /\ k \in keyRow \ held
  /\ held' = held \cup {k}
  /\ UNCHANGED <<dataVars, keyRow, inactive, issued, revoked, restored, callVars,
                 rateVars, pc, cols>>

AdminSave(k) ==
  /\ k \in held
  /\ held' = held \ {k}
  /\ IF DatasetOf[k] \in live
       THEN /\ keyRow' = keyRow \cup {k}
            /\ restored' = IF k \in revoked THEN restored \cup {k} ELSE restored
            /\ \E off \in SUBSET {k} : inactive' = (inactive \ {k}) \cup off
       ELSE UNCHANGED <<keyRow, restored, inactive>>
  /\ UNCHANGED <<dataVars, issued, revoked, callVars, rateVars, pc, cols>>

ChangeVisibility(d) ==
  /\ d \in live
  /\ public' = IF d \in public THEN public \ {d} ELSE public \cup {d}
  /\ UNCHANGED <<live, columns, rows, doomed, dying, keyVars, callVars, rateVars,
                 pc, cols>>

\* Mutant: columns and rows are not replaced in one transaction.
IngestInTwoSteps(d) ==
  /\ d \in live
  /\ columns[d] < MaxAttempt
  /\ IF columns[d] = rows[d]
       THEN columns' = [columns EXCEPT ![d] = @ + 1] /\ UNCHANGED rows
       ELSE rows' = [rows EXCEPT ![d] = @ + 1] /\ UNCHANGED columns
  /\ UNCHANGED <<live, public, doomed, dying, keyVars, callVars, rateVars, pc, cols>>

\* The transaction of _ingest_rows.
Ingest(d) ==
  /\ d \in live
  /\ columns[d] < MaxAttempt
  /\ columns' = [columns EXCEPT ![d] = @ + 1]
  /\ rows' = [rows EXCEPT ![d] = columns[d] + 1]
  /\ UNCHANGED <<live, public, doomed, dying, keyVars, callVars, rateVars, pc, cols>>

KeysOf(d) == {k \in keyRow : DatasetOf[k] = d}

\* The transaction of a deletion deletes the keys it sees, ...
DeleteKeys(d) ==
  /\ d \in live \ dying
  /\ doomed' = [doomed EXCEPT ![d] = KeysOf(d)]
  /\ dying' = dying \cup {d}
  /\ UNCHANGED <<live, public, columns, rows, keyVars, callVars, rateVars, pc, cols>>

\* Mutant: nothing keeps a key issued since from outliving its dataset.
NoReference(d) == FALSE

\* A key issued since refers to the dataset.
Referenced(d) == ~(KeysOf(d) \subseteq doomed[d])

\* ... and the dataset with all it has, or nothing at all.
DeleteRow(d) ==
  /\ d \in dying
  /\ ~Referenced(d)
  /\ live' = live \ {d}
  /\ dying' = dying \ {d}
  /\ columns' = [columns EXCEPT ![d] = 0]
  /\ rows' = [rows EXCEPT ![d] = 0]
  /\ keyRow' = keyRow \ doomed[d]
  /\ doomed' = [doomed EXCEPT ![d] = {}]
  /\ UNCHANGED <<public, inactive, issued, held, revoked, restored, callVars,
                 rateVars, pc, cols>>

DeletionFails(d) ==
  /\ d \in dying
  /\ dying' = dying \ {d}
  /\ doomed' = [doomed EXCEPT ![d] = {}]
  /\ UNCHANGED <<live, public, columns, rows, keyVars, callVars, rateVars, pc, cols>>

------------------------------------------------------------------------------
Init ==
  /\ live = Dataset
  /\ public \in SUBSET Dataset
  /\ columns = [d \in Dataset |-> 0]
  /\ rows = [d \in Dataset |-> 0]
  /\ doomed = [d \in Dataset |-> {}]
  /\ dying = {}
  /\ issued = {k \in Key : DatasetOf[k] \notin Target}
  /\ keyRow = issued
  /\ inactive = {} /\ held = {} /\ revoked = {} /\ restored = {}
  /\ history = [b \in Bucket |-> {}]
  /\ pc = [r \in Request |-> "idle"]
  /\ caller = [r \in Request |-> Anon]
  /\ op = [r \in Request |-> "read"]
  /\ target = [r \in Request |-> None]
  /\ late = [r \in Request |-> FALSE]
  /\ at = [r \in Request |-> 1]
  /\ copy = [r \in Request |-> {}]
  /\ refused = [r \in Request |-> FALSE]
  /\ cols = [r \in Request |-> 0]
  /\ old = {}
  /\ counted = [b \in Bucket |-> {}]

RequestStep(r) ==
  \/ LookUpKey(r) \/ TouchKey(r)
  \/ Refuse(r) \/ Allow(r) \/ Record(r) \/ Age(r)
  \/ GetObject(r) \/ QueryColumns(r) \/ QueryRows(r)

KeyStep(k) == Issue(k) \/ Revoke(k) \/ AdminLoad(k) \/ AdminSave(k)

DatasetStep(d) ==
  \/ ChangeVisibility(d) \/ Ingest(d)
  \/ DeleteKeys(d) \/ DeleteRow(d) \/ DeletionFails(d)

Next ==
  \/ \E r \in Request, c \in Caller, o \in {"read", "retry"}, d \in Target :
       Arrive(r, c, o, d)
  \/ \E r \in Request : RequestStep(r)
  \/ \E k \in Key : DatasetOf[k] \in Target /\ KeyStep(k)
  \/ \E d \in Target : DatasetStep(d)

Spec == Init /\ [][Next]_vars

------------------------------------------------------------------------------
\* Properties

Answers == {"ok", "unauthenticated", "denied", "throttled", "notfound",
            "forbidden", "error"}

\* Every variable holds values the code can give it; a key has a row only if it
\* was issued, and a request is never past its last throttle.
AccessTypeOK ==
  /\ live \in SUBSET Dataset /\ public \in SUBSET Dataset
  /\ dying \in SUBSET live
  /\ columns \in [Dataset -> 0..MaxAttempt] /\ rows \in [Dataset -> 0..MaxAttempt]
  /\ doomed \in [Dataset -> SUBSET Key]
  /\ keyRow \in SUBSET issued /\ issued \in SUBSET Key
  /\ inactive \in SUBSET Key /\ held \in SUBSET issued
  /\ revoked \in SUBSET Key /\ restored \in SUBSET revoked
  /\ history \in [Bucket -> SUBSET Request]
  /\ counted \in [Bucket -> SUBSET Request]
  /\ pc \in [Request -> Answers \cup {"idle", "lookup", "touch", "throttle",
                                      "record", "get", "columns", "rows"}]
  /\ caller \in [Request -> Caller]
  /\ op \in [Request -> {"read", "retry"}]
  /\ target \in [Request -> Dataset \cup {None}]
  /\ \A r \in Request : pc[r] # "idle" => target[r] \in Dataset
  /\ late \in [Request -> BOOLEAN] /\ refused \in [Request -> BOOLEAN]
  /\ \A r \in Request :
       /\ at[r] \in 1..Len(Throttles(caller[r], op[r]))
       /\ pc[r] \in {"idle", "lookup", "touch"} => at[r] = 1
  /\ at \in [Request -> 1..2]
  /\ copy \in [Request -> SUBSET Request]
  /\ cols \in [Request -> 0..MaxAttempt]
  /\ old \in SUBSET Request

\* A request that arrives after the revocation of its key is not served,
\* whatever requests with the same key were under way, unless an administrator
\* saved the key after it was revoked.
RevocationHolds ==
  \A r \in Request : late[r] /\ pc[r] = "ok" => caller[r] \in restored

\* No key outlives its dataset, even one issued during the deletion.
NoKeyWithoutDataset == \A k \in keyRow : DatasetOf[k] \in live

\* The query set holds "everything HasDatasetReadAccess would grant" (views.py),
\* and nothing else, for every caller, action and dataset: whoever may not have
\* a dataset is told that there is none, and nobody else is.
FiltersAgree ==
  \A c \in Caller, o \in {"read", "retry"}, d \in live :
    InQueryset(c, o, d) <=> HasObjectPermission(c, o, d)

\* Columns and rows are read by two queries, and any number of ingestions may
\* commit in between: the rows of an answer may be newer than the columns it
\* describes them with, but never older.
RowsNoOlderThanColumns ==
  [][\A r \in Request :
       pc[r] = "rows" /\ pc'[r] = "ok" /\ target[r] \in live =>
         cols[r] <= rows[target[r]]]_vars

\* A throttle refuses a request only if the caller's bucket let as many of its
\* own requests through in the last minute as its rate allows ("each key has its
\* own bucket, independent of other keys and of anonymous traffic", README.md),
\* even though histories are read and written without a lock.
OwnBucket(r) ==
  <<IF caller[r] \in Key THEN "api_key" ELSE BucketOf(r)[1], caller[r]>>

OwnRecent(r) ==
  {q \in counted[OwnBucket(r)] \ old : caller[q] = caller[r]}

RefusedOnlyWhenFull ==
  [][\A r \in Request :
       pc[r] = "throttle" /\ ~refused[r] /\ refused'[r] =>
         Cardinality(OwnRecent(r)) >= Rate[OwnBucket(r)[1]]]_vars

==============================================================================
