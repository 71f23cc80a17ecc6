---------------------------- MODULE AtomicUpload -----------------------------
(***************************************************************************)
(* What the rest of the system sees of uploads (services and workers of    *)
(* Ingestion, readers of Access): the datasets of an upload appear in one  *)
(* step, all of them or none, under names nobody has; then a message is    *)
(* sent for each, once.  Appear, Send and Stop are Upload, Delay and       *)
(* RequestDies of Ingestion.                                               *)
(***************************************************************************)
CONSTANTS
  Request,
  Sheets(_),    \* the positions of the sheets a form asks for,
  NameOf(_, _)  \* and the owner and name of the dataset of each

VARIABLES
  form,     \* of each upload
  visible,  \* the datasets that exist
  queue,    \* the datasets a message was sent for
  stage     \* of each upload

absVars == <<form, visible, queue, stage>>

Datasets(r) == {r} \X Sheets(form[r])

Name(d) == NameOf(form[d[1]], d[2])

\* It is answered that no dataset was created, or not answered.
Refuse(r) ==
  /\ stage[r] = "asked"
  /\ stage' = [stage EXCEPT ![r] = "over"]
  /\ UNCHANGED <<form, visible, queue>>

Appear(r) ==
  /\ stage[r] = "asked"
  /\ \A d, e \in visible \cup Datasets(r) : Name(d) = Name(e) => d = e
  /\ visible' = visible \cup Datasets(r)
  /\ stage' = [stage EXCEPT ![r] = "sending"]
  /\ UNCHANGED <<form, queue>>

Send(r, d) ==
  /\ stage[r] = "sending"
  /\ d \in Datasets(r) \ queue
  /\ queue' = queue \cup {d}
  /\ stage' = [stage EXCEPT ![r] = IF Datasets(r) \subseteq queue' THEN "over" ELSE @]
  /\ UNCHANGED <<form, visible>>

\* The messages left are never sent.
Stop(r) ==
  /\ stage[r] = "sending"
  /\ stage' = [stage EXCEPT ![r] = "over"]
  /\ UNCHANGED <<form, visible, queue>>

Delete(d) ==
  /\ d \in visible
  /\ visible' = visible \ {d}
  /\ UNCHANGED <<form, queue, stage>>

Init ==
  /\ \A r \in Request : Sheets(form[r]) # {}
  /\ visible = {} /\ queue = {}
  /\ stage = [r \in Request |-> "asked"]

Next ==
  \/ \E r \in Request : Refuse(r) \/ Appear(r) \/ Stop(r) \/ \E d \in Datasets(r) : Send(r, d)
  \/ \E d \in visible : Delete(d)

Spec == Init /\ [][Next]_absVars

==============================================================================
