----------------------------- MODULE Recruitment -----------------------------
(***************************************************************************)
(* The recruitment entries of a user, as one browser tab keeps them: the   *)
(* items of RecruitmentFacade, the calls that change them, and             *)
(* RecruitmentService with its table behind.  The jobs page applies to an  *)
(* offer when the items hold no entry for it; the entries are listed again *)
(* whenever a page that shows them is opened, and nothing cancels a call.  *)
(***************************************************************************)
EXTENDS Naturals, Sequences, FiniteSets, SequencesExt

CONSTANTS
  Offer,
  Foreign,     \* offers another user has an entry for
  Admin,       \* whether the user of the tab is an ADMIN, who sees every entry
  Status,      \* CV_SENT is the one an application begins with
  Failures,    \* whether calls may fail
  MaxActs      \* bound: what the user does in one behaviour

ASSUME RecruitmentAssumption ==
  /\ Foreign \subseteq Offer /\ IsFiniteSet(Offer) /\ Offer # {}
  /\ Admin \in BOOLEAN /\ Failures \in BOOLEAN
  /\ "CV_SENT" \in Status /\ MaxActs \in Nat

VARIABLES
  entries,     \* the API: the table recruitments; an entry is named by its place
  items,       \* items: the entries the tab holds, in the order shown
  loading,     \* loading
  calls,       \* the calls underway
  acts,        \* what the user has done so far
  unsure,      \* history: offers the items may be wrong about
  hasty        \* history: offers applied to while the tab was unsure of them

vars == <<entries, items, loading, calls, acts, unsure, hasty>>

Id == 1..(Cardinality(Foreign) + MaxActs)
Entry == [offer : Offer, mine : BOOLEAN, status : Status, live : BOOLEAN]
Item == [id : Id, offer : Offer, status : Status]
CallState == [n : 0..MaxActs, kind : {"load", "apply", "status", "remove"},
              offer : Offer, id : Id \cup {0}, to : Status,
              at : {"sent", "written", "served", "refused"}, answer : Seq(Item),
              dirty : SUBSET Offer]  \* history: offers a load may be wrong about

TypeOK ==
  /\ entries \in Seq(Entry)
  /\ items \in Seq(Item) /\ loading \in BOOLEAN
  /\ \A c \in calls : c \in CallState
  /\ acts \in 0..MaxActs
  /\ unsure \subseteq Offer /\ hasty \subseteq Offer

Init ==
  /\ entries = [i \in 1..Cardinality(Foreign) |->
                  [offer |-> SetToSeq(Foreign)[i], mine |-> FALSE,
                   status |-> "CV_SENT", live |-> TRUE]]
  /\ items = <<>> /\ loading = FALSE
  /\ calls = {}
  /\ acts = 0
  /\ unsure = Offer /\ hasty = {}

-----------------------------------------------------------------------------
\* What the user may see: findAll, and the check of findOne.
Visible(e) == e.live /\ (Admin \/ e.mine)

ItemOf(i) == [id |-> i, offer |-> entries[i].offer, status |-> entries[i].status]

\* The members of S in the sequence s.
Kept(s, S) ==
  LET upTo[n \in 0..Len(s)] ==
        IF n = 0 THEN <<>>
        ELSE IF s[n] \in S THEN Append(upTo[n - 1], s[n]) ELSE upTo[n - 1]
  IN  upTo[Len(s)]

\* findAll: the latest application first.
Listed ==
  LET found == Kept([i \in 1..Len(entries) |-> i], {i \in DOMAIN entries : Visible(entries[i])})
  IN  Reverse([k \in 1..Len(found) |-> ItemOf(found[k])])

\* appliedJobIds of the jobs page.
Applied(o) == \E i \in DOMAIN items : items[i].offer = o

\* The offers whose entries the calls underway are about to change.
Touched == {c.offer : c \in {d \in calls : d.kind # "load"}}

\* A call is sent.  A load is unsure of the offers whose calls overlap it, and
\* the tab of an offer that two changes are underway for.
Send(kind, o, id, to) ==
  /\ acts < MaxActs
  /\ acts' = acts + 1
  /\ LET call == [n |-> acts, kind |-> kind, offer |-> o, id |-> id, to |-> to,
                   at |-> "sent", answer |-> <<>>, dirty |-> {}]
     IN  IF kind = "load"
         THEN /\ calls' = calls \cup {[call EXCEPT !.dirty = Touched]}
              /\ UNCHANGED unsure
         ELSE /\ calls' = {call} \cup
                   {IF c.kind = "load" THEN [c EXCEPT !.dirty = @ \cup {o}] ELSE c : c \in calls}
              /\ unsure' = unsure \cup ({o} \cap Touched)
  /\ UNCHANGED <<entries, items>>

-----------------------------------------------------------------------------
(* Faulty variants: <definition>_<fault> is not part of the specification; *)
(* it stands for a plausible mistake in the code that a property catches.  *)

\* apply() does not look for an entry first.
Apply_Unchecked(o) ==
  /\ Send("apply", o, 0, "CV_SENT")
  /\ hasty' = hasty \cup ({o} \cap (unsure \cup Touched))
  /\ UNCHANGED loading

-----------------------------------------------------------------------------
(* The tab *)

\* JobsListPage.apply and RecruitmentFacade.applyToOffer.
Apply(o) ==
  /\ ~Applied(o)
  /\ Send("apply", o, 0, "CV_SENT")
  /\ hasty' = hasty \cup ({o} \cap (unsure \cup Touched))
  /\ UNCHANGED loading

\* RecruitmentFacade.load: the jobs page, the recruitment page and the return
\* to the picker.
Load ==
  /\ Send("load", CHOOSE o \in Offer : TRUE, 0, "CV_SENT")
  /\ loading' = TRUE
  /\ UNCHANGED hasty

\* updateStatus of an entry shown.
UpdateStatus(i, to) ==
  /\ items[i].status # to
  /\ Send("status", items[i].offer, items[i].id, to)
  /\ UNCHANGED <<loading, hasty>>

\* confirmDelete and remove of an entry shown.
RemoveItem(i) ==
  /\ Send("remove", items[i].offer, items[i].id, "CV_SENT")
  /\ UNCHANGED <<loading, hasty>>

-----------------------------------------------------------------------------
(* The API *)

Step(c, d) == calls' = (calls \ {c}) \cup {d}
Answer(c, found) == [c EXCEPT !.at = "served", !.answer = found]
Refused(c) == [c EXCEPT !.at = "refused"]

\* RecruitmentService.findAll.
ServeLoad(c) ==
  /\ c.kind = "load" /\ c.at = "sent"
  /\ Step(c, Answer(c, Listed)) \/ (Failures /\ Step(c, Refused(c)))
  /\ UNCHANGED <<entries, items, loading, acts, unsure, hasty>>

\* RecruitmentService.create: no look for an entry of the same offer.  The
\* call, or only its answer, may be lost.
ServeApply(c) ==
  /\ c.kind = "apply" /\ c.at = "sent"
  /\ LET saved == Append(entries, [offer |-> c.offer, mine |-> TRUE,
                                   status |-> c.to, live |-> TRUE])
         created == [id |-> Len(saved), offer |-> c.offer, status |-> c.to]
     IN  \/ entries' = saved /\ Step(c, Answer(c, <<created>>))
         \/ Failures /\ entries' \in {entries, saved} /\ Step(c, Refused(c))
  /\ UNCHANGED <<items, loading, acts, unsure, hasty>>

\* RecruitmentService.update and remove: findOne and the write, and for an
\* update findOne again for the answer.
ServeChange(c) ==
  /\ c.kind \in {"status", "remove"}
  /\ \/ /\ c.at = "sent" /\ c.kind = "status" /\ Visible(entries[c.id])
        /\ entries' = [entries EXCEPT ![c.id].status = c.to]
        /\ Step(c, [c EXCEPT !.at = "written"])
     \/ /\ c.at = "sent" /\ c.kind = "remove" /\ Visible(entries[c.id])
        /\ entries' = [entries EXCEPT ![c.id].live = FALSE]
        /\ Step(c, Answer(c, <<>>)) \/ (Failures /\ Step(c, Refused(c)))
     \/ /\ c.at = "written" /\ Visible(entries[c.id])
        /\ Step(c, Answer(c, <<ItemOf(c.id)>>))
        /\ UNCHANGED entries
     \/ /\ c.at \in {"sent", "written"} /\ (Failures \/ ~Visible(entries[c.id]))
        /\ Step(c, Refused(c))
        /\ UNCHANGED entries
  /\ UNCHANGED <<items, loading, acts, unsure, hasty>>

-----------------------------------------------------------------------------
(* The answers *)

\* The created entry takes the place of the whole list.
Stored_Replace(c) ==
  IF c.kind \in {"load", "apply", "status"} THEN c.answer
  ELSE SelectSeq(items, LAMBDA e : e.id # c.id)

\* The created entry is stored with its envelope, the HTTP response.
Stored_Response(c) ==
  IF c.kind = "apply" THEN <<[body |-> c.answer[1]]>> \o items ELSE c.answer

\* What a successful call makes of the items.
Stored(c) ==
  CASE c.kind = "load" -> c.answer
    [] c.kind = "apply" -> c.answer \o items
    [] c.kind = "status" -> [i \in DOMAIN items |-> IF items[i].id = c.id THEN c.answer[1] ELSE items[i]]
    [] c.kind = "remove" -> Kept(items, {e \in Range(items) : e.id # c.id})

Answered(c) ==
  /\ c.at = "served"
  /\ calls' = calls \ {c}
  /\ items' = Stored(c)
  /\ loading' = (loading /\ c.kind # "load")
  /\ unsure' = IF c.kind = "load" THEN c.dirty ELSE unsure
  /\ UNCHANGED <<entries, acts, hasty>>

\* A toast, and nothing for an application: its observer has no error handler.
CallFailed(c) ==
  /\ c.at = "refused"
  /\ calls' = calls \ {c}
  /\ loading' = (loading /\ c.kind # "load")
  /\ unsure' = unsure \cup (IF c.kind = "load" THEN {} ELSE {c.offer})
  /\ UNCHANGED <<entries, items, acts, hasty>>

UserActs ==
  \/ \E o \in Offer : Apply(o)
  \/ Load
  \/ \E i \in DOMAIN items : RemoveItem(i) \/ \E to \in Status : UpdateStatus(i, to)

CallsGoOn ==
  \E c \in calls : ServeLoad(c) \/ ServeApply(c) \/ ServeChange(c) \/ Answered(c) \/ CallFailed(c)

Next == UserActs \/ CallsGoOn

\* Every call is answered or fails.
Spec == Init /\ [][Next]_vars /\ WF_vars(CallsGoOn)

-----------------------------------------------------------------------------
EntriesOf(o) == {i \in DOMAIN entries : entries[i].offer = o /\ Visible(entries[i])}

\* Nobody applies twice to an offer (nothing in the API stops it), but for a
\* click made before the answer to the last one, before the entries were
\* listed, or after calls about that offer overlapped or failed.
AppliedTwiceOnlyInHaste ==
  \A o \in Offer \ hasty : Cardinality({i \in EntriesOf(o) : entries[i].mine}) <= 1

\* With nothing underway the tab shows each entry of the user once, and as it
\* is, unless calls about its offer overlapped or failed.
SettledItemsTellTheTruth ==
  calls = {} =>
    \A o \in Offer \ unsure :
      LET shown == {k \in DOMAIN items : items[k].offer = o}
      IN  /\ {items[k] : k \in shown} = {ItemOf(i) : i \in EntriesOf(o)}
          /\ Cardinality(shown) = Cardinality(EntriesOf(o))
=============================================================================
