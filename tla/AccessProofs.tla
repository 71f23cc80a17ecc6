---------------------------- MODULE AccessProofs -----------------------------
(***************************************************************************)
(* Safety of Access for any number of datasets, users, keys and requests,  *)
(* and any rates.                                                          *)
(***************************************************************************)
EXTENDS Access, TLAPS, FiniteSetTheorems

\* What each kind of step leaves alone.
LEMMA Kinds ==
  ASSUME [Next]_vars
  PROVE  \/ \E r \in Request, c \in Caller, o \in {"read", "retry"}, d \in Target :
              Arrive(r, c, o, d)
         \/ \E r \in Request : RequestStep(r)
         \/ UNCHANGED <<callVars, rateVars, pc, cols>>
BY DEF Next, KeyStep, DatasetStep, Issue, Revoke, AdminLoad, AdminSave,
       ChangeVisibility, Ingest, DeleteKeys, DeleteRow, DeletionFails, vars

\* A request has one throttle or two, and its buckets are buckets.
LEMMA ThrottleCount ==
  ASSUME NEW c \in Caller, NEW o
  PROVE  /\ Len(Throttles(c, o)) \in {1, 2}
         /\ 1 \in 1..Len(Throttles(c, o))
         /\ \A i \in 1..Len(Throttles(c, o)) :
              /\ Throttles(c, o)[i] \in Bucket
              /\ Throttles(c, o)[i][1] \in Scope
              /\ Throttles(c, o)[i][2] = c
              /\ c \in Key => Throttles(c, o)[i][1] = "api_key"
BY DEF Throttles, Bucket, Scope, Caller

LEMMA BucketTyped ==
  ASSUME AccessTypeOK, NEW r \in Request
  PROVE  /\ BucketOf(r) \in Bucket
         /\ BucketOf(r)[1] \in Scope
         /\ BucketOf(r)[2] = caller[r]
         /\ caller[r] \in Key => BucketOf(r)[1] = "api_key"
<1>1. caller[r] \in Caller /\ at[r] \in 1..Len(Throttles(caller[r], op[r]))
  BY DEF AccessTypeOK
<1> QED
  BY <1>1, ThrottleCount DEF BucketOf

------------------------------------------------------------------------------
\* Types

LEMMA TypeInit == Init => AccessTypeOK
<1> SUFFICES ASSUME Init PROVE AccessTypeOK
  OBVIOUS
<1>1. Anon \in Caller
  BY DEF Caller
<1>2. \A r \in Request : 1 \in 1..Len(Throttles(caller[r], op[r]))
  BY <1>1, ThrottleCount DEF Init
<1>3. 0 \in 0..MaxAttempt
  BY AccessAssumption
<1>4. \A r \in Request : at[r] \in 1..Len(Throttles(caller[r], op[r]))
  BY <1>2 DEF Init
<1> QED
  BY <1>1, <1>3, <1>4 DEF Init, AccessTypeOK, Answers

LEMMA TypeArrive ==
  ASSUME AccessTypeOK,
         NEW r \in Request, NEW c \in Caller, NEW o \in {"read", "retry"},
         NEW d \in Target, Arrive(r, c, o, d)
  PROVE  AccessTypeOK'
<1>1. Len(Throttles(c, o)) \in {1, 2}
  BY ThrottleCount
<1>2. d \in Dataset
  BY AccessAssumption
<1>3. \A q \in Request \ {r} : Throttles(caller[q], op[q])' = Throttles(caller[q], op[q])
  BY DEF Arrive, AccessTypeOK, Throttles
<1>4. Throttles(caller[r], op[r])' = Throttles(c, o)
  BY DEF Arrive, AccessTypeOK, Throttles
<1>5. at[r] = 1
  BY DEF Arrive, AccessTypeOK
<1>6. \A q \in Request :
        /\ at'[q] \in 1..Len(Throttles(caller[q], op[q])')
        /\ pc'[q] \in {"idle", "lookup", "touch"} => at'[q] = 1
  <2>1. at' = at
    BY DEF Arrive, rateVars
  <2>2. ASSUME NEW q \in Request \ {r}
        PROVE  /\ at'[q] \in 1..Len(Throttles(caller[q], op[q])')
               /\ pc'[q] \in {"idle", "lookup", "touch"} => at'[q] = 1
    <3>1. pc'[q] = pc[q]
      BY DEF Arrive, AccessTypeOK
    <3> QED
      BY <1>3, <2>1, <3>1 DEF AccessTypeOK
  <2>3. at'[r] \in 1..Len(Throttles(caller[r], op[r])') /\ at'[r] = 1
    <3>1. 1 \in 1..Len(Throttles(c, o))
      BY ThrottleCount
    <3> QED
      BY <1>4, <1>5, <2>1, <3>1
  <2> QED
    BY <2>2, <2>3
<1>7. /\ pc' \in [Request -> Answers \cup {"idle", "lookup", "touch", "throttle",
                                           "record", "get", "columns", "rows"}]
      /\ \A q \in Request : pc'[q] # "idle" => target'[q] \in Dataset
  BY <1>2 DEF Arrive, AccessTypeOK, Authenticated, Answers
<1>8. /\ caller' \in [Request -> Caller] /\ op' \in [Request -> {"read", "retry"}]
      /\ target' \in [Request -> Dataset \cup {None}]
      /\ late' \in [Request -> BOOLEAN]
  BY <1>2 DEF Arrive, AccessTypeOK
<1> QED
  BY <1>6, <1>7, <1>8
     DEF Arrive, AccessTypeOK, dataVars, keyVars, rateVars, Throttles

\* Steps of a request change nothing of others but the shared histories.
LEMMA TypeRequest ==
  ASSUME AccessTypeOK, NEW r \in Request, RequestStep(r)
  PROVE  AccessTypeOK'
<1>1. BucketOf(r) \in Bucket
  BY BucketTyped
<1>2. /\ callVars' = callVars
      /\ \A q : Throttles(caller[q], op[q])' = Throttles(caller[q], op[q])
  BY DEF RequestStep, LookUpKey, TouchKey, Refuse, Allow, Record, Age, GetObject,
         QueryColumns, QueryRows, callVars, Throttles
<1>3. Len(Throttles(caller[r], op[r])) \in {1, 2}
  BY ThrottleCount DEF AccessTypeOK
<1>4. CASE LookUpKey(r) \/ TouchKey(r) \/ GetObject(r) \/ QueryColumns(r)
           \/ QueryRows(r)
  <2>1. /\ pc' \in [Request -> Answers \cup {"idle", "lookup", "touch", "throttle",
                                             "record", "get", "columns", "rows"}]
        /\ \A q \in Request :
             /\ pc'[q] # "idle" => target[q] \in Dataset
             /\ pc'[q] \in {"idle", "lookup", "touch"} => at[q] = 1
    <3> DEFINE v == pc'[r]
    <3>1. /\ v \in Answers \cup {"touch", "throttle", "columns", "rows"}
          /\ v = "touch" => pc[r] = "lookup"
      <4>1. CASE LookUpKey(r)
        BY <4>1 DEF LookUpKey, Answers, AccessTypeOK
      <4>2. CASE TouchKey(r)
        BY <4>2 DEF TouchKey, Authenticated, Answers, AccessTypeOK
      <4>3. CASE GetObject(r)
        BY <4>3 DEF GetObject, Fetched, Answers, AccessTypeOK
      <4>4. CASE QueryColumns(r) \/ QueryRows(r)
        BY <4>4 DEF QueryColumns, QueryRows, Answers, AccessTypeOK
      <4> QED
        BY <1>4, <4>1, <4>2, <4>3, <4>4
    <3>2. pc[r] # "idle" /\ pc' = [pc EXCEPT ![r] = v]
      BY <1>4 DEF LookUpKey, TouchKey, GetObject, QueryColumns, QueryRows, AccessTypeOK
    <3> HIDE DEF v
    <3> QED
      BY <3>1, <3>2 DEF AccessTypeOK, Answers
  <2>2. cols' \in [Request -> 0..MaxAttempt]
    BY <1>4, AccessAssumption DEF LookUpKey, TouchKey, GetObject, QueryColumns,
                                  QueryRows, AccessTypeOK
  <2>3. UNCHANGED <<dataVars, keyVars, rateVars>>
    BY <1>4 DEF LookUpKey, TouchKey, GetObject, QueryColumns, QueryRows
  <2> QED
    BY <1>2, <2>1, <2>2, <2>3
       DEF AccessTypeOK, dataVars, keyVars, callVars, rateVars
<1>5. CASE Refuse(r) \/ Record(r)
  <2> DEFINE last == Len(Throttles(caller[r], op[r]))
  <2>a. \/ at[r] < last /\ at' = [at EXCEPT ![r] = @ + 1]
        \/ at' = at
    BY <1>5 DEF Refuse, Record, Ask
  <2>b. \A q \in Request : at[q] \in 1..2 /\ at[q] \in 1..Len(Throttles(caller[q], op[q]))
    BY DEF AccessTypeOK
  <2>c. last \in {1, 2}
    BY <1>3
  <2>d. at \in [Request -> 1..2]
    BY DEF AccessTypeOK
  <2>1. /\ at' \in [Request -> 1..2]
        /\ \A q \in Request : at'[q] \in 1..Len(Throttles(caller[q], op[q]))
    <3>1. CASE at' = at
      BY <2>b, <2>d, <3>1
    <3>2. CASE at[r] < last /\ at' = [at EXCEPT ![r] = @ + 1]
      <4>1. at[r] = 1 /\ last = 2
        <5> DEFINE i == at[r]
        <5>1. i \in {1, 2} /\ i < last
          BY <2>b, <3>2
        <5> HIDE DEF i, last
        <5> QED
          BY <2>c, <5>1 DEF i
      <4> QED
        BY <2>b, <2>d, <3>2, <4>1
    <3> QED
      BY <2>a, <3>1, <3>2
  <2>2. /\ pc' \in [Request -> Answers \cup {"idle", "lookup", "touch", "throttle",
                                             "record", "get", "columns", "rows"}]
        /\ \A q \in Request :
             /\ pc'[q] # "idle" => target[q] \in Dataset
             /\ pc'[q] \in {"idle", "lookup", "touch"} => at'[q] = 1
    BY <1>5 DEF Refuse, Record, Ask, AccessTypeOK, Answers
  <2>3. /\ history' \in [Bucket -> SUBSET Request]
        /\ counted' \in [Bucket -> SUBSET Request]
    <3> DEFINE b == BucketOf(r)
    <3>1. history \in [Bucket -> SUBSET Request] /\ counted \in [Bucket -> SUBSET Request]
          /\ copy[r] \in SUBSET Request
      BY DEF AccessTypeOK
    <3>2. b \in Bucket
      BY <1>1
    <3>3. CASE Refuse(r)
      BY <3>1, <3>3 DEF Refuse
    <3>4. CASE Record(r)
      <4>1. /\ history' = [history EXCEPT ![b] = copy[r] \cup {r}]
            /\ counted' = [counted EXCEPT ![b] = @ \cup {r}]
        BY <3>4 DEF Record
      <4> HIDE DEF b
      <4> QED
        BY <3>1, <3>2, <4>1
    <3> QED
      BY <1>5, <3>3, <3>4
  <2>4. /\ copy' \in [Request -> SUBSET Request]
        /\ refused' \in [Request -> BOOLEAN]
    BY <1>5 DEF Refuse, Record, AccessTypeOK
  <2>5. UNCHANGED <<dataVars, keyVars, callVars, old, cols>>
    BY <1>5 DEF Refuse, Record
  <2> QED
    BY <1>2, <2>1, <2>2, <2>3, <2>4, <2>5
       DEF AccessTypeOK, dataVars, keyVars, callVars
<1>6. CASE Allow(r)
  <2>1. /\ pc' \in [Request -> Answers \cup {"idle", "lookup", "touch", "throttle",
                                             "record", "get", "columns", "rows"}]
        /\ \A q \in Request :
             /\ pc'[q] # "idle" => target[q] \in Dataset
             /\ pc'[q] \in {"idle", "lookup", "touch"} => at[q] = 1
    BY <1>6 DEF Allow, AccessTypeOK
  <2>2. copy' \in [Request -> SUBSET Request]
    BY <1>1, <1>6 DEF Allow, AccessTypeOK
  <2> QED
    BY <1>2, <1>6, <2>1, <2>2 DEF Allow, AccessTypeOK, dataVars, keyVars, callVars
<1>7. CASE Age(r)
  BY <1>2, <1>7 DEF Age, AccessTypeOK, dataVars, keyVars, callVars
<1> QED
  BY <1>4, <1>5, <1>6, <1>7 DEF RequestStep

LEMMA TypeOthers ==
  ASSUME AccessTypeOK, Next, UNCHANGED <<callVars, rateVars, pc, cols>>
  PROVE  AccessTypeOK'
<1>1. UNCHANGED <<caller, op, target, late, history, at, copy, refused, old, counted>>
  BY DEF callVars, rateVars
<1> DEFINE Mine ==
     /\ live \in SUBSET Dataset /\ public \in SUBSET Dataset
     /\ dying \in SUBSET live
     /\ columns \in [Dataset -> 0..MaxAttempt] /\ rows \in [Dataset -> 0..MaxAttempt]
     /\ doomed \in [Dataset -> SUBSET Key]
     /\ keyRow \in SUBSET issued /\ issued \in SUBSET Key
     /\ inactive \in SUBSET Key /\ held \in SUBSET issued
     /\ revoked \in SUBSET Key /\ restored \in SUBSET revoked
<1>2. Mine
  BY DEF AccessTypeOK
<1>3. ASSUME NEW k \in Key, KeyStep(k) PROVE Mine'
  BY <1>2, <1>3 DEF KeyStep, Issue, Revoke, AdminLoad, AdminSave, dataVars
<1>4. ASSUME NEW d \in Target, ChangeVisibility(d) \/ Ingest(d) PROVE Mine'
  <2>1. d \in Dataset
    BY AccessAssumption
  <2>2. columns[d] < MaxAttempt => columns[d] + 1 \in 0..MaxAttempt
    BY <1>2, <2>1, AccessAssumption
  <2> QED
    BY <1>2, <1>4, <2>1, <2>2 DEF ChangeVisibility, Ingest, keyVars
<1>5. ASSUME NEW d \in Target, DeleteKeys(d) \/ DeleteRow(d) \/ DeletionFails(d)
      PROVE  Mine'
  <2>1. d \in Dataset /\ 0 \in 0..MaxAttempt
    BY AccessAssumption
  <2> QED
    BY <1>2, <1>5, <2>1
       DEF DeleteKeys, DeleteRow, DeletionFails, KeysOf, keyVars
<1>6. ASSUME NEW r \in Request, NEW c \in Caller, NEW o \in {"read", "retry"},
             NEW d \in Target, Arrive(r, c, o, d)
      PROVE  Mine'
  <2>1. UNCHANGED <<dataVars, keyVars>>
    BY <1>6 DEF Arrive
  <2> QED
    BY <1>2, <2>1 DEF dataVars, keyVars
<1>7. ASSUME NEW r \in Request, RequestStep(r) PROVE Mine'
  <2>1. UNCHANGED <<dataVars, keyVars>>
    BY <1>7 DEF RequestStep, LookUpKey, TouchKey, Refuse, Allow, Record, Age,
                GetObject, QueryColumns, QueryRows
  <2> QED
    BY <1>2, <2>1 DEF dataVars, keyVars
<1>8. Mine'
  BY <1>3, <1>4, <1>5, <1>6, <1>7 DEF Next, DatasetStep
<1>9. \A r \in Request : Throttles(caller[r], op[r])' = Throttles(caller[r], op[r])
  BY <1>1 DEF Throttles
<1> QED
  BY <1>1, <1>8, <1>9 DEF AccessTypeOK

LEMMA TypeStep == AccessTypeOK /\ [Next]_vars => AccessTypeOK'
<1> SUFFICES ASSUME AccessTypeOK, [Next]_vars PROVE AccessTypeOK'
  OBVIOUS
<1>1. CASE UNCHANGED vars
  BY <1>1 DEF AccessTypeOK, vars, dataVars, keyVars, callVars, rateVars, Throttles
<1>2. CASE Next
  BY <1>2, Kinds, TypeArrive, TypeRequest, TypeOthers
<1> QED
  BY <1>1, <1>2

\* Every reachable state is well typed.
THEOREM AccessTyped == Spec => []AccessTypeOK
BY TypeInit, TypeStep, PTL DEF Spec

------------------------------------------------------------------------------
\* Keys

\* No key outlives its dataset: the deletion takes all that refer to it, and a
\* key needs it to get a row.
THEOREM KeysHaveDatasets == Spec => []NoKeyWithoutDataset
<1>1. Init => NoKeyWithoutDataset
  BY AccessAssumption DEF Init, NoKeyWithoutDataset
<1>2. ASSUME AccessTypeOK, NoKeyWithoutDataset, [Next]_vars
      PROVE  NoKeyWithoutDataset'
  <2>1. ASSUME UNCHANGED <<dataVars, keyVars>> PROVE NoKeyWithoutDataset'
    BY <1>2, <2>1 DEF NoKeyWithoutDataset, dataVars, keyVars
  <2>2. ASSUME NEW r \in Request, NEW c \in Caller, NEW o \in {"read", "retry"},
               NEW d \in Target, Arrive(r, c, o, d)
        PROVE  NoKeyWithoutDataset'
    BY <2>1, <2>2 DEF Arrive
  <2>3. ASSUME NEW r \in Request, RequestStep(r)
        PROVE  NoKeyWithoutDataset'
    BY <2>1, <2>3 DEF RequestStep, LookUpKey, TouchKey, Refuse, Allow, Record, Age,
                      GetObject, QueryColumns, QueryRows
  <2>4. ASSUME NEW k \in Key, KeyStep(k) PROVE NoKeyWithoutDataset'
    BY <1>2, <2>4 DEF KeyStep, Issue, Revoke, AdminLoad, AdminSave,
                      NoKeyWithoutDataset, dataVars
  <2>5. ASSUME NEW d \in Target,
               ChangeVisibility(d) \/ Ingest(d) \/ DeleteKeys(d) \/ DeletionFails(d)
        PROVE  NoKeyWithoutDataset'
    BY <1>2, <2>5 DEF ChangeVisibility, Ingest, DeleteKeys, DeletionFails,
                      NoKeyWithoutDataset, keyVars
  <2>6. ASSUME NEW d \in Target, DeleteRow(d) PROVE NoKeyWithoutDataset'
    <3>1. \A k \in keyRow \ doomed[d] : DatasetOf[k] # d
      BY <2>6 DEF DeleteRow, Referenced, KeysOf
    <3> QED
      BY <1>2, <2>6, <3>1 DEF DeleteRow, NoKeyWithoutDataset
  <2>7. CASE UNCHANGED vars
    BY <2>1, <2>7 DEF vars
  <2> QED
    BY <1>2, <2>2, <2>3, <2>4, <2>5, <2>6, <2>7 DEF Next, DatasetStep
<1> QED
  BY <1>1, <1>2, AccessTyped, PTL DEF Spec

\* A revoked key has no row, and a request that came too late never finds one.
RevokedInv ==
  /\ revoked \subseteq issued
  /\ \A k \in revoked \ restored : k \notin keyRow
  /\ \A r \in Request :
       late[r] => /\ caller[r] \in revoked
                  /\ caller[r] \in restored
                       \/ pc[r] \in {"lookup", "unauthenticated"}

\* Keys change one at a time, and only an administrator's save brings one back.
LEMMA RevokedKeys ==
  ASSUME AccessTypeOK, RevokedInv, [Next]_vars
  PROVE  /\ revoked' \subseteq issued'
         /\ \A k \in revoked' \ restored' : k \notin keyRow'
         /\ revoked \subseteq revoked' /\ restored \subseteq restored'
<1>1. CASE UNCHANGED keyVars
  BY <1>1 DEF RevokedInv, keyVars
<1>2. ASSUME NEW k \in Key, KeyStep(k)
      PROVE  /\ revoked' \subseteq issued'
             /\ \A x \in revoked' \ restored' : x \notin keyRow'
             /\ revoked \subseteq revoked' /\ restored \subseteq restored'
  BY <1>2 DEF KeyStep, Issue, Revoke, AdminLoad, AdminSave, RevokedInv,
              AccessTypeOK
<1>3. ASSUME NEW d \in Target, DeleteRow(d)
      PROVE  /\ revoked' \subseteq issued'
             /\ \A x \in revoked' \ restored' : x \notin keyRow'
             /\ revoked \subseteq revoked' /\ restored \subseteq restored'
  BY <1>3 DEF DeleteRow, RevokedInv
<1>4. ASSUME [Next]_vars, ~(\E k \in Key : KeyStep(k)), ~(\E d \in Target : DeleteRow(d))
      PROVE  UNCHANGED keyVars
  BY <1>4 DEF Next, DatasetStep, ChangeVisibility, Ingest, DeleteKeys,
              DeletionFails, Arrive, RequestStep, LookUpKey, TouchKey, Refuse,
              Allow, Record, Age, GetObject, QueryColumns, QueryRows, vars
<1> QED
  BY <1>1, <1>2, <1>3, <1>4

\* A request with a late key goes no further than the lookup.
LEMMA RevokedRequests ==
  ASSUME AccessTypeOK, RevokedInv, [Next]_vars, NEW q \in Request, late'[q]
  PROVE  /\ caller'[q] \in revoked'
         /\ caller'[q] \in restored' \/ pc'[q] \in {"lookup", "unauthenticated"}
<1>1. revoked \subseteq revoked' /\ restored \subseteq restored'
  BY RevokedKeys
<1>2. CASE late[q] /\ caller'[q] = caller[q] /\ pc'[q] = pc[q]
  BY <1>1, <1>2 DEF RevokedInv
<1>3. ASSUME NEW r \in Request, NEW c \in Caller, NEW o \in {"read", "retry"},
             NEW d \in Target, Arrive(r, c, o, d)
      PROVE  /\ caller'[q] \in revoked'
             /\ caller'[q] \in restored' \/ pc'[q] \in {"lookup", "unauthenticated"}
  <2>1. CASE q # r
    BY <1>2, <1>3, <2>1 DEF Arrive, AccessTypeOK
  <2>2. CASE q = r
    <3>1. c \in revoked /\ caller'[q] = c
      BY <1>3, <2>2 DEF Arrive, AccessTypeOK
    <3>2. c \in Key
      BY <3>1 DEF AccessTypeOK
    <3>3. pc'[q] = "lookup"
      BY <1>3, <2>2, <3>2 DEF Arrive, AccessTypeOK
    <3> QED
      BY <1>1, <3>1, <3>3
  <2> QED
    BY <2>1, <2>2
<1>4. ASSUME NEW r \in Request, RequestStep(r)
      PROVE  /\ caller'[q] \in revoked'
             /\ caller'[q] \in restored' \/ pc'[q] \in {"lookup", "unauthenticated"}
  <2>1. late' = late /\ caller' = caller /\ op' = op
    BY <1>4 DEF RequestStep, LookUpKey, TouchKey, Refuse, Allow, Record, Age,
                GetObject, QueryColumns, QueryRows, callVars
  <2>2. CASE q # r
    <3>1. pc'[q] = pc[q]
      BY <1>4, <2>2 DEF RequestStep, LookUpKey, TouchKey, Refuse, Allow, Record, Age,
                        GetObject, QueryColumns, QueryRows, Ask, AccessTypeOK
    <3> QED
      BY <1>2, <2>1, <3>1
  <2>3. CASE q = r /\ caller[q] \in restored
    BY <1>1, <2>1, <2>3 DEF RevokedInv
  <2>4. CASE q = r /\ caller[q] \notin restored
    <3>1. pc[q] \in {"lookup", "unauthenticated"} /\ caller[q] \notin keyRow
      BY <2>1, <2>4 DEF RevokedInv
    <3>2. LookUpKey(q) \/ Age(q)
      BY <1>4, <2>4, <3>1 DEF RequestStep, TouchKey, Refuse, Allow, Record,
                              GetObject, QueryColumns, QueryRows
    <3>3. pc'[q] \in {"lookup", "unauthenticated"}
      BY <3>1, <3>2 DEF LookUpKey, Age, AccessTypeOK
    <3> QED
      BY <1>1, <2>1, <3>3 DEF RevokedInv
  <2> QED
    BY <2>2, <2>3, <2>4
<1>5. CASE UNCHANGED <<callVars, rateVars, pc, cols>>
  BY <1>2, <1>5 DEF callVars
<1> QED
  BY <1>3, <1>4, <1>5, Kinds

\* A request that comes after the revocation of its key is not served, unless
\* an administrator brought the key back.
THEOREM RevocationIsFinal == Spec => []RevocationHolds
<1>1. Init => RevokedInv
  BY DEF Init, RevokedInv
<1>2. AccessTypeOK /\ RevokedInv /\ [Next]_vars => RevokedInv'
  <2> SUFFICES ASSUME AccessTypeOK, RevokedInv, [Next]_vars PROVE RevokedInv'
    OBVIOUS
  <2>1. /\ revoked' \subseteq issued'
        /\ \A k \in revoked' \ restored' : k \notin keyRow'
    BY RevokedKeys
  <2>2. \A q \in Request :
          late'[q] => /\ caller'[q] \in revoked'
                      /\ caller'[q] \in restored'
                           \/ pc'[q] \in {"lookup", "unauthenticated"}
    BY RevokedRequests
  <2> QED
    BY <2>1, <2>2 DEF RevokedInv
<1>3. RevokedInv => RevocationHolds
  BY DEF RevokedInv, RevocationHolds
<1> QED
  BY <1>1, <1>2, <1>3, AccessTyped, PTL DEF Spec

------------------------------------------------------------------------------
\* The object permission, after the query set

Stages == Answers \cup {"idle", "lookup", "touch", "throttle", "record", "get",
                        "columns", "rows"}

\* A key is no user, and so owns nothing.
LEMMA OnlyUsersOwn ==
  ASSUME NEW c \in Caller, NEW d \in Dataset, Owns(c, d)
  PROVE  c \in User
BY AccessAssumption DEF Owns

\* The query set and the permission class grant the same, whatever happens to
\* keys, datasets and their visibility.
THEOREM FiltersAlwaysAgree == Spec => []FiltersAgree
<1>1. AccessTypeOK => FiltersAgree
  <2> SUFFICES ASSUME AccessTypeOK, NEW c \in Caller, NEW o \in {"read", "retry"},
                      NEW d \in live
               PROVE  InQueryset(c, o, d) <=> HasObjectPermission(c, o, d)
    BY DEF FiltersAgree
  <2>1. d \in Dataset
    BY DEF AccessTypeOK
  <2>2. CASE o = "retry"
    BY <2>1, <2>2, OnlyUsersOwn DEF InQueryset, HasObjectPermission
  <2>3. CASE o = "read"
    <3>1. c \in User => c \notin Key
      BY AccessAssumption
    <3> QED
      BY <2>1, <2>3, <3>1, OnlyUsersOwn DEF InQueryset, HasObjectPermission
  <2> QED
    BY <2>2, <2>3
<1> QED
  BY <1>1, AccessTyped, PTL DEF Spec

------------------------------------------------------------------------------
\* Answers from two queries

\* Columns and rows always come from the same ingestion, and no request has read
\* columns that its dataset has not had yet.
AnswerInv ==
  /\ \A d \in Dataset : columns[d] = rows[d]
  /\ \A r \in Request :
       pc[r] = "rows" /\ target[r] \in live => cols[r] <= columns[target[r]]

\* An ingestion or a deletion replaces columns and rows at once, and columns only
\* go back when their dataset is gone.
LEMMA AnswerDatasets ==
  ASSUME AccessTypeOK, AnswerInv, NEW d \in Target, DatasetStep(d)
  PROVE  /\ \A e \in Dataset : columns'[e] = rows'[e]
         /\ live' \subseteq live
         /\ \A e \in live' : columns[e] <= columns'[e]
<1>1. /\ columns \in [Dataset -> 0..MaxAttempt] /\ rows \in [Dataset -> 0..MaxAttempt]
      /\ live \subseteq Dataset /\ d \in Dataset
  BY AccessAssumption DEF AccessTypeOK
<1>2. CASE Ingest(d)
  <2>1. /\ columns' = [columns EXCEPT ![d] = @ + 1] /\ live' = live
        /\ rows' = [rows EXCEPT ![d] = columns[d] + 1]
    BY <1>2 DEF Ingest
  <2>2. \A e \in Dataset : columns[e] \in Int
    BY <1>1, AccessAssumption
  <2> QED
    BY <1>1, <2>1, <2>2 DEF AnswerInv
<1>3. CASE DeleteRow(d)
  <2>1. /\ columns' = [columns EXCEPT ![d] = 0] /\ rows' = [rows EXCEPT ![d] = 0]
        /\ live' = live \ {d}
    BY <1>3 DEF DeleteRow
  <2>2. \A e \in live' : columns'[e] = columns[e] /\ columns[e] \in Int
    BY <1>1, <2>1, AccessAssumption
  <2> QED
    BY <1>1, <2>1, <2>2 DEF AnswerInv
<1>4. CASE UNCHANGED <<columns, rows, live>>
  <2>1. \A e \in live : columns[e] \in Int
    BY <1>1, AccessAssumption
  <2> QED
    BY <1>4, <2>1 DEF AnswerInv
<1> QED
  BY <1>2, <1>3, <1>4 DEF DatasetStep, ChangeVisibility, DeleteKeys, DeletionFails

LEMMA AnswerStep == AccessTypeOK /\ AnswerInv /\ [Next]_vars => AnswerInv'
<1> SUFFICES ASSUME AccessTypeOK, AnswerInv, [Next]_vars PROVE AnswerInv'
  OBVIOUS
<1>1. ASSUME NEW d \in Target, DatasetStep(d) PROVE AnswerInv'
  <2>1. UNCHANGED <<pc, target, cols>>
    BY <1>1 DEF DatasetStep, ChangeVisibility, Ingest, DeleteKeys, DeleteRow,
                DeletionFails, callVars
  <2>2. /\ \A e \in Dataset : columns'[e] = rows'[e]
        /\ live' \subseteq live
        /\ \A e \in live' : columns[e] <= columns'[e]
    BY <1>1, AnswerDatasets
  <2>3. ASSUME NEW r \in Request, pc[r] = "rows", target[r] \in live'
        PROVE  cols[r] <= columns'[target[r]]
    <3> DEFINE e == target[r]
    <3>1. cols[r] <= columns[e] /\ columns[e] <= columns'[e]
      BY <2>2, <2>3 DEF AnswerInv
    <3>2. e \in Dataset
      BY <2>2, <2>3 DEF AccessTypeOK
    <3>3. cols[r] \in Int /\ columns[e] \in Int
      BY <3>2, AccessAssumption DEF AccessTypeOK
    <3>4. columns'[e] \in Int
      BY <1>1, <3>2, TypeStep, AccessAssumption DEF AccessTypeOK
    <3> HIDE DEF e
    <3>5. cols[r] <= columns'[e]
      BY <3>1, <3>3, <3>4
    <3> QED
      BY <3>5 DEF e
  <2> QED
    BY <2>1, <2>2, <2>3 DEF AnswerInv
<1>2. ASSUME NEW r \in Request, NEW c \in Caller, NEW o \in {"read", "retry"},
             NEW d \in Target, Arrive(r, c, o, d)
      PROVE  AnswerInv'
  <2>1. UNCHANGED <<columns, rows, live, cols>>
    BY <1>2 DEF Arrive, dataVars
  <2>2. \A q \in Request : pc'[q] = "rows" => pc[q] = "rows" /\ target'[q] = target[q]
    BY <1>2 DEF Arrive, Authenticated, AccessTypeOK
  <2> QED
    BY <2>1, <2>2 DEF AnswerInv
<1>3. ASSUME NEW r \in Request, RequestStep(r) PROVE AnswerInv'
  <2>1. UNCHANGED <<columns, rows, live, target>>
    BY <1>3 DEF RequestStep, LookUpKey, TouchKey, Refuse, Allow, Record, Age,
                GetObject, QueryColumns, QueryRows, dataVars, callVars
  <2>2. CASE QueryColumns(r)
    <3>1. /\ cols' = [cols EXCEPT ![r] = columns[target[r]]]
          /\ \A q \in Request \ {r} : pc'[q] = pc[q]
      BY <2>2 DEF QueryColumns, AccessTypeOK
    <3>2. \A q \in Request : target[q] \in live => columns[target[q]] \in Int
      BY AccessAssumption DEF AccessTypeOK
    <3> QED
      BY <2>1, <3>1, <3>2 DEF AnswerInv, AccessTypeOK
  <2>3. CASE ~QueryColumns(r)
    <3>1. \A q \in Request : pc'[q] = "rows" => pc[q] = "rows" /\ cols'[q] = cols[q]
      BY <1>3, <2>3 DEF RequestStep, LookUpKey, TouchKey, Refuse, Allow, Record, Age,
                        GetObject, QueryRows, Ask, Authenticated, Fetched, AccessTypeOK
    <3> QED
      BY <2>1, <3>1 DEF AnswerInv
  <2> QED
    BY <2>2, <2>3
<1>4. CASE UNCHANGED <<columns, rows, live, pc, target, cols>>
  BY <1>4 DEF AnswerInv
<1>5. ASSUME NEW k \in Key, KeyStep(k) PROVE AnswerInv'
  BY <1>4, <1>5 DEF KeyStep, Issue, Revoke, AdminLoad, AdminSave, dataVars, callVars
<1> QED
  BY <1>1, <1>2, <1>3, <1>4, <1>5 DEF Next, vars, dataVars, callVars

\* The rows of an answer are those that came with its columns, or newer ones:
\* whatever is ingested between the two queries.
THEOREM RowsAreNoOlder == Spec => RowsNoOlderThanColumns
<1>1. Init => AnswerInv
  BY DEF Init, AnswerInv
<1>2. AccessTypeOK /\ AnswerInv =>
        [\A r \in Request :
           pc[r] = "rows" /\ pc'[r] = "ok" /\ target[r] \in live =>
             cols[r] <= rows[target[r]]]_vars
  BY DEF AnswerInv, AccessTypeOK
<1> QED
  BY <1>1, <1>2, AnswerStep, AccessTyped, PTL DEF Spec, RowsNoOlderThanColumns

------------------------------------------------------------------------------
\* Throttling

\* A history holds requests of its bucket's caller that were let through.
HistoryInv ==
  /\ \A b \in Bucket : history[b] \subseteq counted[b]
  /\ \A b \in Bucket : \A q \in counted[b] : caller[q] = b[2] /\ pc[q] # "idle"
  /\ \A r \in Request :
       pc[r] = "record" => copy[r] \subseteq counted[BucketOf(r)]

LEMMA HistoryStep == AccessTypeOK /\ HistoryInv /\ [Next]_vars => HistoryInv'
<1> SUFFICES ASSUME AccessTypeOK, HistoryInv, [Next]_vars PROVE HistoryInv'
  OBVIOUS
<1>0. /\ pc \in [Request -> Stages] /\ counted \in [Bucket -> SUBSET Request]
      /\ history \in [Bucket -> SUBSET Request]
      /\ caller \in [Request -> Caller] /\ op \in [Request -> {"read", "retry"}]
      /\ copy \in [Request -> SUBSET Request] /\ at \in [Request -> 1..2]
  BY DEF AccessTypeOK, Stages
<1>1. ASSUME NEW r \in Request, NEW c \in Caller, NEW o \in {"read", "retry"},
             NEW d \in Target, Arrive(r, c, o, d)
      PROVE  HistoryInv'
  <2>1. UNCHANGED <<history, counted, copy, at>> /\ pc[r] = "idle"
    BY <1>1 DEF Arrive, rateVars
  <2>2. /\ pc'[r] \notin {"idle", "record"}
        /\ \A q \in Request \ {r} : pc'[q] = pc[q] /\ caller'[q] = caller[q]
                                      /\ op'[q] = op[q]
    BY <1>0, <1>1 DEF Arrive, Authenticated
  <2>3. \A q \in Request \ {r} : BucketOf(q)' = BucketOf(q)
    BY <2>1, <2>2 DEF BucketOf, Throttles
  <2>4. \A b \in Bucket : \A q \in counted[b] : q \in Request \ {r}
    BY <1>0, <2>1 DEF HistoryInv
  <2> QED
    BY <2>1, <2>2, <2>3, <2>4 DEF HistoryInv
<1>2. ASSUME NEW r \in Request, RequestStep(r) PROVE HistoryInv'
  <2>1. BucketOf(r) \in Bucket /\ BucketOf(r)[2] = caller[r]
    BY BucketTyped
  <2>2. /\ callVars' = callVars
        /\ \A q : Throttles(caller[q], op[q])' = Throttles(caller[q], op[q])
    BY <1>2 DEF RequestStep, LookUpKey, TouchKey, Refuse, Allow, Record, Age,
                GetObject, QueryColumns, QueryRows, callVars, Throttles
  <2>3. CASE LookUpKey(r) \/ TouchKey(r) \/ GetObject(r) \/ QueryColumns(r)
             \/ QueryRows(r)
    <3>1. UNCHANGED <<rateVars, callVars>>
      BY <2>3 DEF LookUpKey, TouchKey, GetObject, QueryColumns, QueryRows
    <3>2. \A q \in Request : /\ pc'[q] = "record" => pc[q] = "record"
                             /\ pc'[q] = "idle" => pc[q] = "idle"
      BY <1>0, <2>3 DEF LookUpKey, TouchKey, GetObject, QueryColumns, QueryRows,
                        Authenticated, Fetched
    <3>3. \A q : BucketOf(q)' = BucketOf(q)
      BY <3>1 DEF BucketOf, Throttles, rateVars, callVars
    <3> QED
      BY <1>0, <3>1, <3>2, <3>3 DEF HistoryInv, rateVars, callVars
  <2>4. CASE Refuse(r)
    <3>1. UNCHANGED <<history, counted, copy, caller>>
      BY <2>4 DEF Refuse, callVars
    <3>2. /\ \A q \in Request : /\ pc'[q] = "record" => pc[q] = "record"
                                /\ pc'[q] = "idle" => pc[q] = "idle"
          /\ pc'[r] # "record"
      BY <1>0, <2>4 DEF Refuse, Ask
    <3>3. \A q \in Request \ {r} : BucketOf(q)' = BucketOf(q)
      BY <1>0, <2>2, <2>4 DEF Refuse, Ask, BucketOf
    <3> QED
      BY <1>0, <3>1, <3>2, <3>3 DEF HistoryInv
  <2>5. CASE Allow(r)
    <3>1. UNCHANGED <<history, counted, caller, at>>
      BY <2>5 DEF Allow, callVars
    <3>2. /\ copy' = [copy EXCEPT ![r] = history[BucketOf(r)] \ old]
          /\ pc' = [pc EXCEPT ![r] = "record"]
      BY <2>5 DEF Allow
    <3>3. \A q \in Request : BucketOf(q)' = BucketOf(q)
      BY <2>2, <3>1 DEF BucketOf
    <3> HIDE DEF BucketOf
    <3>4. copy'[r] \subseteq counted[BucketOf(r)]
      BY <1>0, <2>1, <3>2 DEF HistoryInv
    <3> QED
      BY <1>0, <3>1, <3>2, <3>3, <3>4 DEF HistoryInv
  <2>6. CASE Record(r)
    <3> DEFINE b == BucketOf(r)
    <3>1. /\ history' = [history EXCEPT ![b] = copy[r] \cup {r}]
          /\ counted' = [counted EXCEPT ![b] = @ \cup {r}]
          /\ copy' = [copy EXCEPT ![r] = {}]
          /\ caller' = caller /\ pc[r] = "record"
      BY <2>6 DEF Record, callVars
    <3>2. /\ pc'[r] \notin {"record", "idle"}
          /\ \A q \in Request \ {r} : pc'[q] = pc[q]
      BY <1>0, <2>6 DEF Record, Ask
    <3>3. \A q \in Request \ {r} : BucketOf(q)' = BucketOf(q)
      BY <1>0, <2>2, <2>6 DEF Record, Ask, BucketOf
    <3>4. copy[r] \subseteq counted[b] /\ b \in Bucket /\ b[2] = caller[r]
      BY <2>1, <3>1 DEF HistoryInv
    <3> HIDE DEF b
    <3>5. \A a \in Bucket : /\ history'[a] \subseteq counted'[a]
                             /\ counted[a] \subseteq counted'[a]
                             /\ \A q \in counted'[a] :
                                  q \in counted[a] \/ (q = r /\ a = b)
      BY <1>0, <3>1, <3>4 DEF HistoryInv
    <3>6. \A a \in Bucket : \A q \in counted'[a] : caller'[q] = a[2] /\ pc'[q] # "idle"
      BY <1>0, <3>1, <3>2, <3>4, <3>5 DEF HistoryInv
    <3>7. \A q \in Request : pc'[q] = "record" => copy'[q] \subseteq counted'[BucketOf(q)']
      <4> SUFFICES ASSUME NEW q \in Request \ {r}, pc[q] = "record"
                   PROVE  copy'[q] \subseteq counted'[BucketOf(q)]
        BY <3>2, <3>3
      <4>1. BucketOf(q) \in Bucket
        BY BucketTyped
      <4> QED
        BY <1>0, <3>1, <3>5, <4>1 DEF HistoryInv
    <3> QED
      BY <3>5, <3>6, <3>7 DEF HistoryInv
  <2>7. CASE Age(r)
    <3>1. UNCHANGED <<history, counted, copy, caller, op, at, pc>>
      BY <2>7 DEF Age, callVars
    <3> QED
      BY <3>1 DEF HistoryInv, BucketOf, Throttles
  <2> QED
    BY <1>2, <2>3, <2>4, <2>5, <2>6, <2>7 DEF RequestStep
<1>3. CASE UNCHANGED <<callVars, rateVars, pc, cols>>
  BY <1>3 DEF HistoryInv, BucketOf, Throttles, callVars, rateVars
<1> QED
  BY <1>1, <1>2, <1>3, Kinds

\* Whoever is refused has filled its own bucket.
THEOREM RefusalsAreDeserved == Spec => RefusedOnlyWhenFull
<1>1. Init => HistoryInv
  BY DEF Init, HistoryInv
<1>2. ASSUME AccessTypeOK, HistoryInv, [Next]_vars, NEW r \in Request,
             pc[r] = "throttle", ~refused[r], refused'[r]
      PROVE  Cardinality(OwnRecent(r)) >= Rate[OwnBucket(r)[1]]
  <2>1. Refuse(r)
    <3>1. ASSUME NEW q \in Request, NEW c \in Caller, NEW o \in {"read", "retry"},
                 NEW d \in Target, Arrive(q, c, o, d)
          PROVE  FALSE
      BY <1>2, <3>1 DEF Arrive, rateVars
    <3>2. ASSUME NEW q \in Request, RequestStep(q) PROVE Refuse(r)
      BY <1>2, <3>2 DEF RequestStep, LookUpKey, TouchKey, Refuse, Allow, Record, Age,
                        GetObject, QueryColumns, QueryRows, AccessTypeOK, rateVars
    <3> QED
      BY <1>2, <3>1, <3>2, Kinds DEF rateVars
  <2> DEFINE b == BucketOf(r)
  <2>2. /\ b \in Bucket /\ b[1] \in Scope /\ b[2] = caller[r]
        /\ caller[r] \in Key => b[1] = "api_key"
    BY <1>2, BucketTyped
  <2>3. Cardinality(history[b] \ old) >= Rate[b[1]]
    BY <2>1 DEF Refuse, Full
  <2>4. OwnBucket(r) = b
    <3> HIDE DEF b
    <3>1. b = <<b[1], b[2]>>
      BY <2>2 DEF Bucket
    <3>2. OwnBucket(r) = <<b[1], b[2]>>
      BY <2>2 DEF OwnBucket, b
    <3> QED
      BY <3>1, <3>2
  <2>5. history[b] \ old \subseteq OwnRecent(r) /\ OwnRecent(r) \subseteq Request
    <3> HIDE DEF b
    <3> QED
      BY <1>2, <2>2, <2>4 DEF HistoryInv, OwnRecent, AccessTypeOK
  <2>6. /\ IsFiniteSet(OwnRecent(r)) /\ IsFiniteSet(history[b] \ old)
        /\ Cardinality(history[b] \ old) <= Cardinality(OwnRecent(r))
    BY <2>5, AccessAssumption, FS_Subset
  <2>7. /\ Cardinality(history[b] \ old) \in Nat /\ Cardinality(OwnRecent(r)) \in Nat
        /\ Rate[b[1]] \in Nat
    BY <2>2, <2>6, AccessAssumption, FS_CardinalityType
  <2> HIDE DEF b
  <2> QED
    BY <2>3, <2>4, <2>6, <2>7
<1>3. AccessTypeOK /\ HistoryInv /\ [Next]_vars =>
        [\A r \in Request :
           pc[r] = "throttle" /\ ~refused[r] /\ refused'[r] =>
             Cardinality(OwnRecent(r)) >= Rate[OwnBucket(r)[1]]]_vars
  BY <1>2
<1> QED
  BY <1>1, <1>3, HistoryStep, AccessTyped, PTL DEF Spec, RefusedOnlyWhenFull

==============================================================================
