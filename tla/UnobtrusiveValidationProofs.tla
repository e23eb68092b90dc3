--------------------- MODULE UnobtrusiveValidationProofs ---------------------
(* Proofs about UnobtrusiveValidation.                                     *)
EXTENDS UnobtrusiveValidation, TLAPS

\* A form without a validator has no rules.
RulesAttached == ~attached => ruled = {}

\* A field without rules has never been found invalid.
UnruledUntouched ==
    \A f \in Fields \ ruled : box[f].class = "valid" /\ invalid[f] # "yes"

\* What the last check has found is what is held of the fields.
LastCheckHeld ==
    /\ errors \subseteq ruled /\ successes \subseteq ruled
    /\ errors \cap successes = {}
    /\ \A f \in errors : invalid[f] = "yes"
    /\ \A f \in successes : invalid[f] # "yes"

\* An answer is about the value that was asked for last, unless the form was
\* reset; a value that the validator knows to be good is not taken.
AnswersTrueOf(known, requests, waiting) ==
    \A f \in Fields :
        /\ requests[f] # NoRequest => f \in waiting
        /\ requests[f].kept => requests[f].value = known[f].old
        /\ requests[f] # NoRequest /\ ~requests[f].kept => known[f] = Unasked
        /\ f \notin waiting /\ known[f].valid => known[f].old \notin Taken

AnswersTrue == AnswersTrueOf(previous, request, pending)

ValidationInv ==
    /\ TypeOK
    /\ RulesAttached
    /\ UnruledUntouched
    /\ LastCheckHeld
    /\ AnswersTrue
    /\ ContainersAgree
    /\ PostedMeets

-----------------------------------------------------------------------------
(* Verdicts.                                                               *)

LEMMA VerdictCases ==
    ASSUME NEW f, NEW known
    PROVE  Verdict(f, known) \in {"invalid", "pending", "valid"}
BY DEF Verdict

LEMMA WithPartitions ==
    ASSUME NEW S \in SUBSET Fields, NEW known
    PROVE  /\ \A v : With(S, known, v) \subseteq S
           /\ \A f \in S : f \in With(S, known, "invalid") \/ f \in With(S, known, "pending")
                           \/ f \in With(S, known, "valid")
           /\ With(S, known, "invalid") \cap With(S, known, "valid") = {}
           /\ With(S, known, "invalid") \cap With(S, known, "pending") = {}
           /\ With(S, known, "valid") \cap With(S, known, "pending") = {}
BY VerdictCases DEF With

\* The adapters make of the attributes rules that say what the attributes say,
\* and a value that is found valid is one that the server was asked for.
LEMMA ValidMeets ==
    ASSUME TypeOK, NEW f \in Fields, NEW known, Verdict(f, known) = "valid",
           known[f].valid => known[f].old \notin Taken
    PROVE  Meets(f, value[f])
<1> DEFINE a == Attributes[f]
           v == value[f]
<1>1. /\ v \in Nat /\ a.min \in Nat \cup {None} /\ a.max \in Nat \cup {None}
      /\ a.required \in BOOLEAN /\ a.checkbox \in BOOLEAN /\ a.remote \in BOOLEAN
  BY FormAssumption DEF TypeOK
<1>2. \A rule \in Rules(f) : Passes(rule, v)
  BY DEF Verdict
<1>3. a.required /\ ~a.checkbox => v # 0
  <2>1. a.required /\ ~a.checkbox => Rule("required", << >>) \in Rules(f)
    BY DEF Rules, Required
  <2>2. Passes(Rule("required", << >>), v) => v > 0
    BY DEF Passes, Rule
  <2> QED BY <1>1, <1>2, <2>1, <2>2
<1>4. v # 0 /\ a.min # None => v >= a.min
  <2>1. CASE a.max = None /\ a.min # None
    <3>1. Rule("minlength", <<a.min>>) \in Rules(f)
      BY <2>1 DEF Rules, Length, MinMax
    <3>2. Passes(Rule("minlength", <<a.min>>), v) => v = 0 \/ v >= a.min
      BY DEF Passes, Rule
    <3> QED BY <1>2, <3>1, <3>2
  <2>2. CASE a.max # None /\ a.min # None
    <3>1. Rule("rangelength", <<a.min, a.max>>) \in Rules(f)
      BY <2>2 DEF Rules, Length, MinMax
    <3>2. Passes(Rule("rangelength", <<a.min, a.max>>), v) => v = 0 \/ v \in a.min .. a.max
      BY DEF Passes, Rule
    <3> QED BY <1>1, <1>2, <2>2, <3>1, <3>2
  <2> QED BY <2>1, <2>2
<1>5. v # 0 /\ a.max # None => v <= a.max
  <2>1. CASE a.min = None /\ a.max # None
    <3>1. Rule("maxlength", <<a.max>>) \in Rules(f)
      BY <2>1 DEF Rules, Length, MinMax
    <3>2. Passes(Rule("maxlength", <<a.max>>), v) => v = 0 \/ v <= a.max
      BY DEF Passes, Rule
    <3> QED BY <1>2, <3>1, <3>2
  <2>2. CASE a.min # None /\ a.max # None
    <3>1. Rule("rangelength", <<a.min, a.max>>) \in Rules(f)
      BY <2>2 DEF Rules, Length, MinMax
    <3>2. Passes(Rule("rangelength", <<a.min, a.max>>), v) => v = 0 \/ v \in a.min .. a.max
      BY DEF Passes, Rule
    <3> QED BY <1>1, <1>2, <2>2, <3>1, <3>2
  <2> QED BY <2>1, <2>2
<1>6. v # 0 /\ a.remote => v \notin Taken
  <2> SUFFICES ASSUME v # 0, a.remote PROVE v \notin Taken
    OBVIOUS
  <2>1. Rule("remote", << >>) \in Rules(f) BY DEF Rules, Remote
  <2>2. IsRemote(f) BY <2>1 DEF IsRemote, Rule
  <2>3. known[f].old = v /\ known[f].valid
    BY <1>2, <2>2 DEF Verdict
  <2> QED BY <2>3
<1> QED BY <1>3, <1>4, <1>5, <1>6 DEF Meets

-----------------------------------------------------------------------------
(* Containers.                                                             *)

Boxes == [Fields -> [class : {"valid", "error"}, text : BOOLEAN]]

LEMMA ShownContainers ==
    ASSUME NEW boxes \in Boxes,
           NEW E \in SUBSET Fields, NEW S \in SUBSET Fields
    PROVE  /\ Shown(boxes, E, S) \in Boxes
           /\ \A f \in Fields : Shown(boxes, E, S)[f].class =
                 IF f \in E THEN "error" ELSE IF f \in S THEN "valid" ELSE boxes[f].class
<1>1. ASSUME NEW f \in Fields
      PROVE  /\ OnError(f, boxes[f]) \in [class : {"valid", "error"}, text : BOOLEAN]
             /\ OnError(f, boxes[f]).class = "error"
             /\ OnSuccess(f, OnError(f, boxes[f])) \in [class : {"valid", "error"}, text : BOOLEAN]
             /\ OnSuccess(f, OnError(f, boxes[f])).class = "valid"
  BY DEF OnError, OnSuccess, Boxes
<1>2. ASSUME NEW f \in Fields
      PROVE  Shown(boxes, E, S)[f] =
                IF f \in E THEN OnError(f, boxes[f])
                ELSE IF f \in S THEN OnSuccess(f, OnError(f, boxes[f])) ELSE boxes[f]
  BY DEF Shown
<1>3. Shown(boxes, E, S) = [f \in Fields |-> Shown(boxes, E, S)[f]]
  BY DEF Shown
<1>4. \A f \in Fields : Shown(boxes, E, S)[f] \in [class : {"valid", "error"}, text : BOOLEAN]
  BY <1>1, <1>2 DEF Boxes
<1>5. Shown(boxes, E, S) \in Boxes
  <2> HIDE DEF Shown
  <2> QED BY <1>3, <1>4 DEF Boxes
<1> QED BY <1>1, <1>2, <1>5

Summaries == [class : {"valid", "error"}, list : SUBSET Fields]

\* A form that is checked as a whole shows what is held of its fields; what is
\* neither right nor wrong waits for the server.
LEMMA ReportAgrees ==
    ASSUME TypeOK, NEW boxes \in Boxes, NEW E, NEW S,
           E \subseteq ruled, S \subseteq ruled, E \cap S = {}, ruled' = ruled,
           \A f \in ruled : f \in E \/ f \in S \/ f \in pending',
           \A f \in Fields \ ruled : boxes[f].class = "valid",
           Report(boxes, E, S)
    PROVE  /\ submitted' \subseteq Fields
           /\ invalid' \in [Fields -> {"yes", "no", "unknown"}]
           /\ box' \in Boxes
           /\ summary' \in Summaries
           /\ UnruledUntouched' /\ LastCheckHeld' /\ ContainersAgree'
<1>1. /\ E \in SUBSET Fields /\ S \in SUBSET Fields /\ ruled \in SUBSET Fields
      /\ submitted \subseteq Fields /\ summary \in Summaries
  BY DEF TypeOK, Summaries
<1>2. /\ errors' = E /\ successes' = S /\ submitted' = submitted \cup E
      /\ invalid' = [f \in Fields |-> IF f \in E THEN "yes" ELSE "unknown"]
      /\ box' = Shown(boxes, E, S)
      /\ summary' = IF E # {} THEN [class |-> "error", list |-> E] ELSE summary
  BY DEF Report, OnErrors
<1>3. /\ box' \in Boxes
      /\ \A f \in Fields : box'[f].class =
            IF f \in E THEN "error" ELSE IF f \in S THEN "valid" ELSE boxes[f].class
  BY <1>1, <1>2, ShownContainers
<1>4. UnruledUntouched' BY <1>1, <1>2, <1>3 DEF UnruledUntouched
<1>5. LastCheckHeld' BY <1>1, <1>2 DEF LastCheckHeld
<1>6. ContainersAgree'
  <2> SUFFICES ASSUME NEW f \in Fields \ pending'
               PROVE  box'[f].class = "error" <=> invalid'[f] = "yes"
    BY DEF ContainersAgree
  <2>1. f \notin ruled => boxes[f].class = "valid" OBVIOUS
  <2>2. box'[f].class = "error" <=> f \in E BY <1>3, <2>1
  <2>3. invalid'[f] = "yes" <=> f \in E BY <1>2
  <2> QED BY <2>2, <2>3
<1>7. summary' \in Summaries BY <1>1, <1>2 DEF Summaries
<1> QED BY <1>1, <1>2, <1>3, <1>4, <1>5, <1>6, <1>7

-----------------------------------------------------------------------------
(* Requests.                                                               *)

Knowledge == [Fields -> [old : Values \cup {None}, valid : BOOLEAN]]
RequestsMade == [Fields -> [value : Values \cup {None}, kept : BOOLEAN]]

LEMMA AskTrue ==
    ASSUME TypeOK, NEW known \in Knowledge, NEW requests \in RequestsMade,
           NEW waiting, NEW asks, waiting \subseteq ruled, asks \subseteq ruled,
           AnswersTrueOf(known, requests, waiting), ruled' = ruled,
           Ask(known, requests, waiting, asks)
    PROVE  /\ previous' \in Knowledge
           /\ request' \in RequestsMade
           /\ pending' \subseteq ruled'
           /\ AnswersTrue'
<1>1. value \in [Fields -> Values] /\ ruled \subseteq Fields BY DEF TypeOK
<1>2. \A f \in Fields \ asks : /\ previous'[f] = known[f]
                               /\ request'[f] = requests[f]
                               /\ f \in pending' <=> f \in waiting
  BY DEF Ask, Asked
<1>3. \A f \in asks : /\ previous'[f] = [old |-> value[f], valid |-> known[f].valid]
                      /\ request'[f] = [value |-> value[f], kept |-> TRUE]
                      /\ f \in pending'
  BY <1>1 DEF Ask, Asked, Knowledge
<1>4. previous' \in Knowledge
  <2>1. previous' = [f \in Fields |-> previous'[f]] BY DEF Ask, Asked
  <2>2. ASSUME NEW f \in Fields
        PROVE  previous'[f] \in [old : Values \cup {None}, valid : BOOLEAN]
    <3>1. value[f] \in Values /\ known[f] \in [old : Values \cup {None}, valid : BOOLEAN]
      BY <1>1 DEF Knowledge
    <3>2. known[f].valid \in BOOLEAN BY <3>1
    <3>3. CASE f \in asks
      <4>1. previous'[f] = [old |-> value[f], valid |-> known[f].valid] BY <1>3, <3>3
      <4> QED BY <3>1, <3>2, <4>1
    <3>4. CASE f \notin asks BY <1>2, <3>1, <3>4
    <3> QED BY <3>3, <3>4
  <2> QED BY <2>1, <2>2 DEF Knowledge
<1>5. request' \in RequestsMade
  <2>1. request' = [f \in Fields |-> request'[f]] BY DEF Ask
  <2>2. ASSUME NEW f \in Fields
        PROVE  request'[f] \in [value : Values \cup {None}, kept : BOOLEAN]
    <3>1. value[f] \in Values /\ requests[f] \in [value : Values \cup {None}, kept : BOOLEAN]
      BY <1>1 DEF RequestsMade
    <3>2. CASE f \in asks
      <4>1. request'[f] = [value |-> value[f], kept |-> TRUE] BY <1>3, <3>2
      <4> QED BY <3>1, <4>1
    <3>3. CASE f \notin asks BY <1>2, <3>1, <3>3
    <3> QED BY <3>2, <3>3
  <2> QED BY <2>1, <2>2 DEF RequestsMade
<1>6. pending' \subseteq ruled' BY DEF Ask
<1>7. AnswersTrue'
  <2> SUFFICES ASSUME NEW f \in Fields
               PROVE  /\ request'[f] # NoRequest => f \in pending'
                      /\ request'[f].kept => request'[f].value = previous'[f].old
                      /\ request'[f] # NoRequest /\ ~request'[f].kept => previous'[f] = Unasked
                      /\ f \notin pending' /\ previous'[f].valid => previous'[f].old \notin Taken
    BY DEF AnswersTrue, AnswersTrueOf
  <2>1. CASE f \in asks
    <3>1. /\ previous'[f] = [old |-> value[f], valid |-> known[f].valid]
          /\ request'[f] = [value |-> value[f], kept |-> TRUE]
          /\ f \in pending'
      BY <1>3, <2>1
    <3> QED BY <3>1
  <2>2. CASE f \notin asks BY <1>2, <2>2 DEF AnswersTrueOf
  <2> QED BY <2>1, <2>2
<1> QED BY <1>4, <1>5, <1>6, <1>7

\* Once f is answered, what is known is as true as it was.
LEMMA AnswerTrue ==
    ASSUME ValidationInv, NEW f \in Fields, Answered(f), NEW ok \in BOOLEAN,
           ok => request[f].value \notin Taken
    PROVE  /\ f \in ruled
           /\ f \in pending
           /\ Known(f, ok) \in Knowledge
           /\ Requests(f) \in RequestsMade
           /\ AnswersTrueOf(Known(f, ok), Requests(f), pending \ {f})
<1>1. /\ previous \in Knowledge /\ request \in RequestsMade /\ pending \subseteq ruled
      /\ AnswersTrueOf(previous, request, pending)
      /\ Taken \subseteq Nat
  BY FormAssumption DEF ValidationInv, TypeOK, Knowledge, RequestsMade, AnswersTrue
<1>2. f \in pending /\ f \in ruled BY <1>1 DEF Answered, AnswersTrueOf
<1>3. /\ Requests(f) \in RequestsMade
      /\ \A g \in Fields : Requests(f)[g] = IF g = f THEN NoRequest ELSE request[g]
  BY <1>1 DEF Requests, RequestsMade, NoRequest
<1>4. /\ Known(f, ok) \in Knowledge
      /\ \A g \in Fields \ {f} : Known(f, ok)[g] = previous[g]
      /\ Known(f, ok)[f] = IF request[f].kept THEN [old |-> previous[f].old, valid |-> ok]
                                              ELSE previous[f]
  BY <1>1 DEF Known, Knowledge
<1>5. Known(f, ok)[f].valid => Known(f, ok)[f].old \notin Taken
  <2>1. CASE request[f].kept BY <1>1, <1>4, <2>1 DEF AnswersTrueOf
  <2>2. CASE ~request[f].kept
    BY <1>1, <1>4, <2>2 DEF AnswersTrueOf, Answered, Unasked, None
  <2> QED BY <2>1, <2>2
<1>6. AnswersTrueOf(Known(f, ok), Requests(f), pending \ {f})
  <2> SUFFICES ASSUME NEW g \in Fields
               PROVE  /\ Requests(f)[g] # NoRequest => g \in pending \ {f}
                      /\ Requests(f)[g].kept => Requests(f)[g].value = Known(f, ok)[g].old
                      /\ Requests(f)[g] # NoRequest /\ ~Requests(f)[g].kept =>
                            Known(f, ok)[g] = Unasked
                      /\ g \notin pending \ {f} /\ Known(f, ok)[g].valid =>
                            Known(f, ok)[g].old \notin Taken
    BY DEF AnswersTrueOf
  <2>1. CASE g = f
    <3>1. Requests(f)[f] = NoRequest BY <1>3
    <3>2. ~NoRequest.kept BY DEF NoRequest
    <3> QED BY <1>5, <2>1, <3>1, <3>2
  <2>2. CASE g # f BY <1>1, <1>3, <1>4, <2>2 DEF AnswersTrueOf
  <2> QED BY <2>1, <2>2
<1> QED BY <1>2, <1>3, <1>4, <1>6

-----------------------------------------------------------------------------
(* Steps.                                                                  *)

PostedForms == [done : BOOLEAN, value : [Fields -> Values], ruled : SUBSET Fields]

\* What every step but those that post does about what is posted.
LEMMA NotPosting ==
    ASSUME ValidationInv, posted' = posted \/ posted' = NotPosted
    PROVE  PostedMeets' /\ posted' \in PostedForms
<1>1. posted \in PostedForms /\ PostedMeets BY DEF ValidationInv, TypeOK, PostedForms
<1>2. NotPosted \in PostedForms BY FormAssumption DEF NotPosted, PostedForms
<1>3. NotPosted.ruled = {} BY DEF NotPosted
<1> QED BY <1>1, <1>2, <1>3 DEF PostedMeets

\* A form is posted when every field with rules is found valid.
LEMMA PostingMeets ==
    ASSUME ValidationInv, NEW known, Post,
           \A f \in ruled : Verdict(f, known) = "valid",
           \A f \in ruled : known[f].valid => known[f].old \notin Taken
    PROVE  PostedMeets' /\ posted' \in PostedForms
<1>1. TypeOK /\ ruled \subseteq Fields /\ value \in [Fields -> Values]
  BY DEF ValidationInv, TypeOK
<1>2. posted' = [done |-> TRUE, value |-> value, ruled |-> ruled] BY DEF Post, PostUnder
<1>3. \A f \in ruled : Meets(f, value[f]) BY <1>1, ValidMeets
<1>4. posted' \in PostedForms BY <1>1, <1>2 DEF PostedForms
<1> QED BY <1>2, <1>3, <1>4 DEF PostedMeets

LEMMA InitValidationInv == Init => ValidationInv
<1> SUFFICES ASSUME Init PROVE ValidationInv
  OBVIOUS
<1> USE FormAssumption DEF Init, NoRequest, Unasked, NotPosted
<1>1. TypeOK
  <2>1. /\ previous \in [Fields -> [old : Values \cup {None}, valid : BOOLEAN]]
        /\ request \in [Fields -> [value : Values \cup {None}, kept : BOOLEAN]]
    OBVIOUS
  <2>2. /\ box \in [Fields -> [class : {"valid", "error"}, text : BOOLEAN]]
        /\ summary \in [class : {"valid", "error"}, list : SUBSET Fields]
        /\ posted \in [done : BOOLEAN, value : [Fields -> Values], ruled : SUBSET Fields]
    OBVIOUS
  <2>3. /\ value \in [Fields -> Values]
        /\ invalid \in [Fields -> {"yes", "no", "unknown"}]
    OBVIOUS
  <2>4. /\ attached \in BOOLEAN /\ formSubmitted \in BOOLEAN /\ edited \in BOOLEAN
    OBVIOUS
  <2>5. /\ parsed \subseteq Fields /\ ruled \subseteq parsed /\ pending \subseteq ruled
        /\ errors \subseteq Fields /\ successes \subseteq Fields /\ submitted \subseteq Fields
    OBVIOUS
  <2>6. changes \in 0 .. MaxChanges OBVIOUS
  <2> HIDE DEF Init
  <2> QED BY <2>1, <2>2, <2>3, <2>4, <2>5, <2>6 DEF TypeOK
<1>2. RulesAttached /\ UnruledUntouched BY DEF RulesAttached, UnruledUntouched
<1>3. LastCheckHeld BY DEF LastCheckHeld
<1>4. AnswersTrue BY DEF AnswersTrue, AnswersTrueOf, None
<1>5. ContainersAgree BY DEF ContainersAgree
<1>6. PostedMeets BY DEF PostedMeets
<1> QED BY <1>1, <1>2, <1>3, <1>4, <1>5, <1>6 DEF ValidationInv

\* Rules are attached once, when nothing has been checked.
LEMMA ParseValidationInv ==
    ASSUME ValidationInv,
           \/ \E f \in Fields : ParseElement(f, TRUE) \/ ParseElement(f, FALSE)
           \/ \E S \in SUBSET Fields : Parse(S)
    PROVE  ValidationInv'
<1>1. /\ parsed \subseteq parsed' /\ parsed' \subseteq Fields
      /\ attached' \in BOOLEAN
      /\ \/ attached' = attached /\ ruled' = ruled
         \/ attached' = TRUE /\ ruled' = ruled
         \/ attached' = TRUE /\ ruled = {} /\ ruled' = parsed'
      /\ UNCHANGED <<value, shownVars, remoteVars, formSubmitted, posted, edited, changes>>
  BY DEF ParseElement, Parse, AttachValidation, ValidationInv, RulesAttached, TypeOK
<1>2. ruled \subseteq ruled' /\ ruled' \subseteq parsed'
  BY <1>1 DEF ValidationInv, TypeOK
<1>3. TypeOK' BY <1>1, <1>2 DEF ValidationInv, TypeOK, shownVars, remoteVars
<1>4. RulesAttached' BY <1>1 DEF ValidationInv, RulesAttached
<1>5. UnruledUntouched' /\ LastCheckHeld'
  BY <1>1, <1>2 DEF ValidationInv, UnruledUntouched, LastCheckHeld, shownVars
<1>6. AnswersTrue' BY <1>1 DEF ValidationInv, AnswersTrue, AnswersTrueOf, remoteVars
<1>7. ContainersAgree' BY <1>1 DEF ValidationInv, ContainersAgree, shownVars, remoteVars
<1>8. PostedMeets' BY <1>1, NotPosting
<1> QED BY <1>3, <1>4, <1>5, <1>6, <1>7, <1>8 DEF ValidationInv

LEMMA TypeValidationInv ==
    ASSUME ValidationInv, NEW f \in Fields, NEW v \in Values, Type(f, v)
    PROVE  ValidationInv'
<1>1. value' \in [Fields -> Values] /\ changes' \in 0 .. MaxChanges
  BY FormAssumption DEF ValidationInv, TypeOK, Type
<1>2. edited' \in BOOLEAN BY DEF Type, ValidationInv, TypeOK
<1>3. UNCHANGED <<parseVars, shownVars, remoteVars, formSubmitted, posted>> BY DEF Type
<1>4. TypeOK'
  BY <1>1, <1>2, <1>3 DEF ValidationInv, TypeOK, parseVars, shownVars, remoteVars
<1>5. PostedMeets' BY <1>3, NotPosting
<1> QED BY <1>3, <1>4, <1>5 DEF ValidationInv, RulesAttached, UnruledUntouched, LastCheckHeld,
           AnswersTrue, AnswersTrueOf, ContainersAgree, parseVars, shownVars, remoteVars

\* A check of one field leaves what is held of the others.
LEMMA CheckValidationInv ==
    ASSUME ValidationInv, NEW f \in Fields, CheckField(f)
    PROVE  ValidationInv'
<1> DEFINE checked == {f} \cap ruled
           E == With(checked, previous, "invalid")
           S == With(checked, previous, "valid")
           asks == With(checked, previous, "pending")
<1>1. /\ TypeOK /\ UnruledUntouched /\ LastCheckHeld /\ ContainersAgree
      /\ box \in Boxes /\ ruled \subseteq Fields
  BY DEF ValidationInv, TypeOK, Boxes
<1>2. /\ errors' = E /\ successes' = S /\ submitted' = submitted \cup E
      /\ invalid' = [invalid EXCEPT ![f] = IF f \in E THEN "yes" ELSE "no"]
      /\ box' = Shown(box, E, S)
      /\ Ask(previous, request, pending, asks)
      /\ UNCHANGED <<value, parseVars, formSubmitted, summary, posted, edited, changes>>
  BY DEF CheckField
<1>3. checked \in SUBSET Fields /\ checked \subseteq ruled BY <1>1
<1> HIDE DEF checked
<1>4. /\ E \subseteq checked /\ S \subseteq checked /\ asks \subseteq checked
      /\ \A g \in checked : g \in E \/ g \in asks \/ g \in S
      /\ E \cap S = {}
  BY <1>3, WithPartitions
<1> HIDE DEF E, S, asks
<1>5. E \in SUBSET Fields /\ S \in SUBSET Fields BY <1>3, <1>4
<1>6. /\ box' \in Boxes
      /\ \A g \in Fields : box'[g].class =
            IF g \in E THEN "error" ELSE IF g \in S THEN "valid" ELSE box[g].class
  <2>1. box' = Shown(box, E, S) BY <1>2
  <2>2. box \in Boxes BY <1>1
  <2> QED BY <1>5, <2>1, <2>2, ShownContainers
<1>7. /\ previous' \in Knowledge /\ request' \in RequestsMade /\ pending' \subseteq ruled'
      /\ AnswersTrue'
  BY <1>2, <1>3, <1>4, AskTrue
     DEF ValidationInv, TypeOK, Knowledge, RequestsMade, AnswersTrue, parseVars
<1>8. ruled' = ruled /\ pending' = pending \cup asks BY <1>2 DEF parseVars, Ask
<1>9. checked \subseteq {f} BY DEF checked
<1>10. invalid' \in [Fields -> {"yes", "no", "unknown"}]
  BY <1>1, <1>2 DEF TypeOK
<1>11. TypeOK'
  BY <1>1, <1>2, <1>3, <1>4, <1>6, <1>7, <1>10
     DEF TypeOK, Boxes, Knowledge, RequestsMade, parseVars
<1>12. \A g \in Fields : /\ g # f => invalid'[g] = invalid[g]
                         /\ g = f => invalid'[g] = IF f \in E THEN "yes" ELSE "no"
  BY <1>1, <1>2 DEF TypeOK
<1>13. UnruledUntouched'
  BY <1>1, <1>3, <1>4, <1>6, <1>8, <1>12 DEF UnruledUntouched
<1>14. LastCheckHeld'
  BY <1>2, <1>3, <1>4, <1>8, <1>9, <1>12 DEF LastCheckHeld
<1>15. ContainersAgree'
  <2> SUFFICES ASSUME NEW g \in Fields \ pending'
               PROVE  box'[g].class = "error" <=> invalid'[g] = "yes"
    BY DEF ContainersAgree
  <2>1. CASE g \in checked BY <1>4, <1>6, <1>8, <1>9, <1>12, <2>1
  <2>2. CASE g # f BY <1>1, <1>4, <1>6, <1>8, <1>9, <1>12, <2>2 DEF ContainersAgree
  <2>3. CASE g = f /\ f \notin checked
    <3>1. f \notin ruled BY <2>3 DEF checked
    <3> QED BY <1>1, <1>4, <1>6, <1>12, <2>3, <3>1 DEF UnruledUntouched
  <2> QED BY <2>1, <2>2, <2>3
<1>16. RulesAttached' BY <1>2 DEF ValidationInv, RulesAttached, parseVars
<1>17. PostedMeets' BY <1>2, NotPosting
<1> QED BY <1>7, <1>11, <1>13, <1>14, <1>15, <1>16, <1>17 DEF ValidationInv

LEMMA SubmitUncheckedValidationInv ==
    ASSUME ValidationInv, SubmitUnchecked
    PROVE  ValidationInv'
<1>1. /\ UNCHANGED <<value, parseVars, shownVars, remoteVars, formSubmitted, edited, changes>>
      /\ Post /\ ruled = {}
  BY DEF SubmitUnchecked, ValidationInv, RulesAttached
<1>2. PostedMeets' /\ posted' \in PostedForms BY <1>1, PostingMeets
<1>3. TypeOK'
  BY <1>1, <1>2 DEF ValidationInv, TypeOK, PostedForms, parseVars, shownVars, remoteVars
<1> QED BY <1>1, <1>2, <1>3 DEF ValidationInv, RulesAttached, UnruledUntouched, LastCheckHeld,
           AnswersTrue, AnswersTrueOf, ContainersAgree, parseVars, shownVars, remoteVars

\* Posted under no rules, a form need not meet any.
LEMMA SubmitCancelledValidationInv ==
    ASSUME ValidationInv, SubmitCancelled
    PROVE  ValidationInv'
<1>1. /\ UNCHANGED <<value, parseVars, shownVars, remoteVars, formSubmitted, edited, changes>>
      /\ posted' = [done |-> TRUE, value |-> value, ruled |-> {}]
  BY DEF SubmitCancelled, PostUnder
<1>2. PostedMeets' BY <1>1 DEF PostedMeets
<1>3. TypeOK' BY <1>1 DEF ValidationInv, TypeOK, parseVars, shownVars, remoteVars
<1> QED BY <1>1, <1>2, <1>3 DEF ValidationInv, RulesAttached, UnruledUntouched, LastCheckHeld,
           AnswersTrue, AnswersTrueOf, ContainersAgree, parseVars, shownVars, remoteVars

LEMMA SubmitValidationInv ==
    ASSUME ValidationInv, Submit
    PROVE  ValidationInv'
<1> DEFINE E == With(ruled, previous, "invalid")
           S == With(ruled, previous, "valid")
           asks == With(ruled, previous, "pending")
<1>1. /\ Report(box, E, S)
      /\ Ask(previous, request, pending, asks)
      /\ UNCHANGED <<value, parseVars, changes>>
      /\ formSubmitted' = (formSubmitted \/ (E = {} /\ pending' # {}))
      /\ edited' = (edited /\ (E # {} \/ pending' = {}))
      /\ IF E = {} /\ pending' = {} THEN Post ELSE UNCHANGED posted
  BY DEF Submit
<1>2. ruled \in SUBSET Fields /\ ruled' = ruled /\ TypeOK
  BY <1>1 DEF ValidationInv, TypeOK, parseVars
<1>3. /\ E \subseteq ruled /\ S \subseteq ruled /\ asks \subseteq ruled
      /\ \A f \in ruled : f \in E \/ f \in asks \/ f \in S
      /\ E \cap S = {}
  BY <1>2, WithPartitions
<1>4. \A f \in asks : Verdict(f, previous) = "pending" BY DEF With
<1>5. \A f \in S : Verdict(f, previous) = "valid" BY DEF With
<1> HIDE DEF E, S, asks
<1>6. pending' = pending \cup asks BY <1>1 DEF Ask
<1>7. /\ previous' \in Knowledge /\ request' \in RequestsMade /\ pending' \subseteq ruled'
      /\ AnswersTrue'
  BY <1>1, <1>2, <1>3, AskTrue
     DEF ValidationInv, TypeOK, Knowledge, RequestsMade, AnswersTrue
<1>8. /\ submitted' \subseteq Fields
      /\ invalid' \in [Fields -> {"yes", "no", "unknown"}]
      /\ box' \in Boxes /\ summary' \in Summaries
      /\ UnruledUntouched' /\ LastCheckHeld' /\ ContainersAgree'
  <2>1. \A f \in ruled : f \in E \/ f \in S \/ f \in pending' BY <1>3, <1>6
  <2>2. box \in Boxes BY <1>2 DEF TypeOK, Boxes
  <2>3. \A f \in Fields \ ruled : box[f].class = "valid"
    BY DEF ValidationInv, UnruledUntouched
  <2>4. Report(box, E, S) BY <1>1
  <2> QED BY <1>2, <1>3, <2>1, <2>2, <2>3, <2>4, ReportAgrees
<1>9. PostedMeets' /\ posted' \in PostedForms
  <2>1. CASE E = {} /\ pending' = {}
    <3>1. Post BY <1>1, <2>1
    <3>2. \A f \in ruled : Verdict(f, previous) = "valid" BY <1>3, <1>5, <1>6, <2>1
    <3>3. \A f \in ruled : previous[f].valid => previous[f].old \notin Taken
      BY <1>2, <1>6, <2>1 DEF ValidationInv, AnswersTrue, AnswersTrueOf
    <3> QED BY <3>1, <3>2, <3>3, PostingMeets
  <2>2. CASE ~(E = {} /\ pending' = {})
    <3>1. posted' = posted BY <1>1, <2>2
    <3> QED BY <3>1, NotPosting
  <2> QED BY <2>1, <2>2
<1>10. formSubmitted' \in BOOLEAN /\ edited' \in BOOLEAN BY <1>1
<1>11. errors' \subseteq Fields /\ successes' \subseteq Fields
  BY <1>2, <1>8 DEF LastCheckHeld
<1>12. TypeOK'
  BY <1>1, <1>2, <1>7, <1>8, <1>9, <1>10, <1>11
     DEF TypeOK, Boxes, Summaries, Knowledge, RequestsMade, PostedForms, parseVars
<1>13. RulesAttached' BY <1>1 DEF ValidationInv, RulesAttached, parseVars
<1> QED BY <1>7, <1>8, <1>9, <1>12, <1>13 DEF ValidationInv

\* An answer settles one field, and shows again what was found with it.
LEMMA AcceptValidationInv ==
    ASSUME ValidationInv, NEW f \in Fields, Accept(f)
    PROVE  ValidationInv'
<1>1. /\ Answered(f) /\ request[f].value \notin Taken
      /\ errors' = {} /\ successes' = {f}
      /\ invalid' = [invalid EXCEPT ![f] = "no"]
      /\ box' = Shown(box, {}, {f})
      /\ Ask(Known(f, TRUE), Requests(f), pending \ {f}, {})
      /\ UNCHANGED <<value, parseVars, submitted, formSubmitted, summary, posted, edited, changes>>
  BY DEF Accept
<1>2. TypeOK /\ box \in Boxes /\ ruled' = ruled /\ ruled \subseteq Fields
      /\ pending \subseteq ruled
  BY <1>1 DEF ValidationInv, TypeOK, Boxes, parseVars
<1>3. /\ f \in ruled /\ f \in pending
      /\ Known(f, TRUE) \in Knowledge /\ Requests(f) \in RequestsMade
      /\ AnswersTrueOf(Known(f, TRUE), Requests(f), pending \ {f})
  BY <1>1, AnswerTrue
<1>4. /\ previous' \in Knowledge /\ request' \in RequestsMade /\ pending' \subseteq ruled'
      /\ AnswersTrue'
  <2> DEFINE known == Known(f, TRUE)
             requests == Requests(f)
             waiting == pending \ {f}
             asks == {}
  <2>1. waiting \subseteq ruled /\ asks \subseteq ruled BY <1>2
  <2>2. Ask(known, requests, waiting, asks) BY <1>1
  <2>3. /\ known \in Knowledge /\ requests \in RequestsMade
        /\ AnswersTrueOf(known, requests, waiting)
    BY <1>3
  <2> HIDE DEF known, requests, waiting, asks
  <2> QED BY <1>2, <2>1, <2>2, <2>3, AskTrue
<1>5. pending' = pending \ {f} BY <1>1 DEF Ask
<1>6. /\ box' \in Boxes
      /\ \A g \in Fields : box'[g].class = IF g = f THEN "valid" ELSE box[g].class
  <2>1. {} \in SUBSET Fields /\ {f} \in SUBSET Fields OBVIOUS
  <2>2. box' = Shown(box, {}, {f}) BY <1>1
  <2> QED BY <1>2, <2>1, <2>2, ShownContainers
<1>7. /\ invalid' \in [Fields -> {"yes", "no", "unknown"}]
      /\ \A g \in Fields : invalid'[g] = IF g = f THEN "no" ELSE invalid[g]
  BY <1>1, <1>2 DEF TypeOK
<1>8. TypeOK'
  <2>1. errors' \subseteq Fields /\ successes' \subseteq Fields BY <1>1
  <2> QED BY <1>1, <1>2, <1>4, <1>6, <1>7, <2>1 DEF TypeOK, Boxes, Knowledge, RequestsMade, parseVars
<1>9. UnruledUntouched'
  BY <1>2, <1>6, <1>7 DEF ValidationInv, UnruledUntouched
<1>10. LastCheckHeld' BY <1>1, <1>2, <1>3, <1>7 DEF LastCheckHeld
<1>11. ContainersAgree'
  BY <1>5, <1>6, <1>7 DEF ValidationInv, ContainersAgree
<1>12. RulesAttached' BY <1>1 DEF ValidationInv, RulesAttached, parseVars
<1>13. PostedMeets' BY <1>1, NotPosting
<1> QED BY <1>4, <1>8, <1>9, <1>10, <1>11, <1>12, <1>13 DEF ValidationInv

LEMMA RefuseValidationInv ==
    ASSUME ValidationInv, NEW f \in Fields, Refuse(f)
    PROVE  ValidationInv'
<1>1. /\ Answered(f)
      /\ errors' = errors \cup {f} /\ successes' = successes \ {f}
      /\ invalid' = [invalid EXCEPT ![f] = "yes"]
      /\ box' = Shown(box, errors', successes')
      /\ Ask(Known(f, FALSE), Requests(f), pending \ {f}, {})
      /\ IF Last(f) THEN OnErrors(errors') ELSE UNCHANGED summary
      /\ formSubmitted' = (formSubmitted /\ ~Last(f))
      /\ UNCHANGED <<value, parseVars, submitted, posted, edited, changes>>
  BY DEF Refuse
<1>2. /\ TypeOK /\ LastCheckHeld /\ box \in Boxes /\ ruled' = ruled /\ ruled \subseteq Fields
      /\ pending \subseteq ruled
  BY <1>1 DEF ValidationInv, TypeOK, Boxes, parseVars
<1>3. /\ f \in ruled /\ f \in pending
      /\ Known(f, FALSE) \in Knowledge /\ Requests(f) \in RequestsMade
      /\ AnswersTrueOf(Known(f, FALSE), Requests(f), pending \ {f})
  BY <1>1, AnswerTrue
<1>4. /\ previous' \in Knowledge /\ request' \in RequestsMade /\ pending' \subseteq ruled'
      /\ AnswersTrue'
  <2> DEFINE known == Known(f, FALSE)
             requests == Requests(f)
             waiting == pending \ {f}
             asks == {}
  <2>1. waiting \subseteq ruled /\ asks \subseteq ruled BY <1>2
  <2>2. Ask(known, requests, waiting, asks) BY <1>1
  <2>3. /\ known \in Knowledge /\ requests \in RequestsMade
        /\ AnswersTrueOf(known, requests, waiting)
    BY <1>3
  <2> HIDE DEF known, requests, waiting, asks
  <2> QED BY <1>2, <2>1, <2>2, <2>3, AskTrue
<1>5. pending' = pending \ {f} BY <1>1 DEF Ask
<1>6. errors' \in SUBSET Fields /\ successes' \in SUBSET Fields
  BY <1>1, <1>2 DEF LastCheckHeld
<1>7. /\ box' \in Boxes
      /\ \A g \in Fields : box'[g].class =
            IF g \in errors' THEN "error" ELSE IF g \in successes' THEN "valid" ELSE box[g].class
  <2> DEFINE E == errors \cup {f}
             S == successes \ {f}
  <2>1. box' = Shown(box, E, S) /\ errors' = E /\ successes' = S BY <1>1
  <2>2. E \in SUBSET Fields /\ S \in SUBSET Fields BY <1>1, <1>6
  <2> HIDE DEF E, S
  <2>3. /\ Shown(box, E, S) \in Boxes
        /\ \A g \in Fields : Shown(box, E, S)[g].class =
              IF g \in E THEN "error" ELSE IF g \in S THEN "valid" ELSE box[g].class
    BY <1>2, <2>2, ShownContainers
  <2> QED BY <2>1, <2>3
<1>8. /\ invalid' \in [Fields -> {"yes", "no", "unknown"}]
      /\ \A g \in Fields : invalid'[g] = IF g = f THEN "yes" ELSE invalid[g]
  BY <1>1, <1>2 DEF TypeOK
<1>9. summary' \in Summaries
  BY <1>1, <1>2, <1>6 DEF TypeOK, Summaries, OnErrors
<1>10. formSubmitted' \in BOOLEAN BY <1>1
<1>11. TypeOK'
  BY <1>1, <1>2, <1>4, <1>6, <1>7, <1>8, <1>9, <1>10
     DEF TypeOK, Boxes, Summaries, Knowledge, RequestsMade, parseVars
<1>12. UnruledUntouched'
  <2>1. errors' \subseteq ruled /\ successes' \subseteq ruled
    BY <1>1, <1>2, <1>3 DEF LastCheckHeld
  <2>2. UnruledUntouched BY DEF ValidationInv
  <2> QED BY <1>2, <1>3, <1>7, <1>8, <2>1, <2>2 DEF UnruledUntouched
<1>13. LastCheckHeld' BY <1>1, <1>2, <1>3, <1>8 DEF LastCheckHeld
<1>14. ContainersAgree'
  <2> SUFFICES ASSUME NEW g \in Fields \ pending'
               PROVE  box'[g].class = "error" <=> invalid'[g] = "yes"
    BY DEF ContainersAgree
  <2>1. CASE g \in errors' BY <1>7, <1>13, <2>1 DEF LastCheckHeld
  <2>2. CASE g \in successes' BY <1>7, <1>13, <2>2 DEF LastCheckHeld
  <2>3. CASE g \notin errors' /\ g \notin successes'
    <3>1. g # f /\ g \notin pending BY <1>1, <1>5, <2>3
    <3> QED BY <1>7, <1>8, <2>3, <3>1 DEF ValidationInv, ContainersAgree
  <2> QED BY <2>1, <2>2, <2>3
<1>15. RulesAttached' BY <1>1 DEF ValidationInv, RulesAttached, parseVars
<1>16. PostedMeets' BY <1>1, NotPosting
<1> QED BY <1>4, <1>11, <1>12, <1>13, <1>14, <1>15, <1>16 DEF ValidationInv

\* The verdict on a field depends on what is known of it alone, so the values
\* just asked for are all that still waits.
LEMMA StillPending ==
    ASSUME TypeOK, NEW known \in Knowledge, NEW f \in Fields,
           NEW asks, asks = With(ruled, known, "pending"), f \in ruled,
           Verdict(f, Asked(known, asks)) = "pending"
    PROVE  f \in asks
<1> SUFFICES ASSUME f \notin asks PROVE FALSE
  OBVIOUS
<1>1. Asked(known, asks)[f] = known[f] BY DEF Asked
<1>2. Verdict(f, Asked(known, asks)) = Verdict(f, known) BY <1>1 DEF Verdict
<1> QED BY <1>2 DEF With

LEMMA AcceptLastValidationInv ==
    ASSUME ValidationInv, NEW f \in Fields, AcceptLast(f)
    PROVE  ValidationInv'
<1> DEFINE known == Known(f, TRUE)
           requests == Requests(f)
           asks == With(ruled, known, "pending")
           wrong == With(ruled, known, "invalid") # {}
           then == IF wrong THEN known ELSE Asked(known, asks)
           boxes == Shown(box, {}, {f})
           E == With(ruled, then, "invalid")
           S == With(ruled, then, "valid")
           waiting == {}
<1>1. /\ Answered(f) /\ request[f].value \notin Taken /\ pending = {f}
      /\ formSubmitted' = wrong
      /\ IF ~wrong /\ asks = {} THEN Post ELSE UNCHANGED posted
      /\ UNCHANGED <<value, parseVars, edited, changes>>
  BY DEF AcceptLast, Last
<1>2. Report(boxes, E, S) BY DEF AcceptLast
<1>3. Ask(known, requests, waiting, asks) BY DEF AcceptLast
<1>4. TypeOK /\ box \in Boxes /\ ruled' = ruled /\ ruled \in SUBSET Fields
  BY <1>1 DEF ValidationInv, TypeOK, Boxes, parseVars
<1>5. /\ f \in ruled
      /\ known \in Knowledge /\ requests \in RequestsMade
      /\ AnswersTrueOf(known, requests, waiting)
  <2>1. /\ f \in ruled
        /\ known \in Knowledge /\ requests \in RequestsMade
        /\ AnswersTrueOf(known, requests, pending \ {f})
    BY <1>1, AnswerTrue
  <2>2. waiting = pending \ {f} BY <1>1
  <2> QED BY <2>1, <2>2
<1>6. asks \subseteq ruled /\ waiting \subseteq ruled BY DEF With
<1>7. /\ E \subseteq ruled /\ S \subseteq ruled /\ E \cap S = {}
      /\ \A g \in ruled : g \in E \/ g \in S \/ g \in With(ruled, then, "pending")
  <2> HIDE DEF then
  <2> QED BY <1>4, WithPartitions
<1>8. \A g \in ruled : g \in With(ruled, then, "pending") => g \in asks
  <2> SUFFICES ASSUME NEW g \in ruled, Verdict(g, then) = "pending" PROVE g \in asks
    BY DEF With
  <2>1. CASE wrong BY <2>1 DEF With
  <2>2. CASE ~wrong
    <3>1. Verdict(g, Asked(known, asks)) = "pending" BY <2>2
    <3>2. g \in Fields BY <1>4
    <3> HIDE DEF known
    <3> QED BY <1>4, <1>5, <3>1, <3>2, StillPending
  <2> QED BY <2>1, <2>2
<1>9. /\ boxes \in Boxes
      /\ \A g \in Fields : boxes[g].class = IF g = f THEN "valid" ELSE box[g].class
  <2> DEFINE none == {}
             sole == {f}
  <2>1. none \in SUBSET Fields /\ sole \in SUBSET Fields OBVIOUS
  <2>2. boxes = Shown(box, none, sole) OBVIOUS
  <2>3. \A g : g \notin none /\ (g \in sole <=> g = f) OBVIOUS
  <2> HIDE DEF none, sole, boxes
  <2> QED BY <1>4, <2>1, <2>2, <2>3, ShownContainers
<1>10. ~wrong /\ asks = {} => \A g \in ruled : Verdict(g, known) = "valid"
  BY VerdictCases DEF With
<1> HIDE DEF known, requests, asks, wrong, then, boxes, E, S, waiting
<1>11. pending' = waiting \cup asks BY <1>3 DEF Ask
<1>12. /\ previous' \in Knowledge /\ request' \in RequestsMade /\ pending' \subseteq ruled'
       /\ AnswersTrue'
  BY <1>3, <1>4, <1>5, <1>6, AskTrue
<1>13. /\ submitted' \subseteq Fields
       /\ invalid' \in [Fields -> {"yes", "no", "unknown"}]
       /\ box' \in Boxes /\ summary' \in Summaries
       /\ UnruledUntouched' /\ LastCheckHeld' /\ ContainersAgree'
  <2>1. \A g \in ruled : g \in E \/ g \in S \/ g \in pending' BY <1>7, <1>8, <1>11
  <2>2. \A g \in Fields \ ruled : boxes[g].class = "valid"
    BY <1>5, <1>9 DEF ValidationInv, UnruledUntouched
  <2> QED BY <1>2, <1>4, <1>7, <1>9, <2>1, <2>2, ReportAgrees
<1>14. PostedMeets' /\ posted' \in PostedForms
  <2>1. CASE ~wrong /\ asks = {}
    <3>1. Post BY <1>1, <2>1
    <3>2. \A g \in ruled : Verdict(g, known) = "valid" BY <1>10, <2>1
    <3>3. \A g \in ruled : known[g].valid => known[g].old \notin Taken
      BY <1>4, <1>5 DEF AnswersTrueOf, waiting
    <3> QED BY <3>1, <3>2, <3>3, PostingMeets
  <2>2. CASE ~(~wrong /\ asks = {})
    <3>1. posted' = posted BY <1>1, <2>2
    <3> QED BY <3>1, NotPosting
  <2> QED BY <2>1, <2>2
<1>15. formSubmitted' \in BOOLEAN BY <1>1 DEF wrong
<1>16. errors' \subseteq Fields /\ successes' \subseteq Fields
  BY <1>4, <1>13 DEF LastCheckHeld
<1>17. TypeOK'
  BY <1>1, <1>4, <1>12, <1>13, <1>14, <1>15, <1>16
     DEF TypeOK, Boxes, Summaries, Knowledge, RequestsMade, PostedForms, parseVars
<1>18. RulesAttached' BY <1>1 DEF ValidationInv, RulesAttached, parseVars
<1> QED BY <1>12, <1>13, <1>14, <1>17, <1>18 DEF ValidationInv

LEMMA RequestFailsValidationInv ==
    ASSUME ValidationInv, NEW f \in Fields, RequestFails(f)
    PROVE  ValidationInv'
<1>1. /\ request' = [request EXCEPT ![f] = NoRequest]
      /\ UNCHANGED <<value, parseVars, shownVars, previous, pending, formSubmitted, posted,
                     edited, changes>>
  BY DEF RequestFails, Requests
<1>2. /\ request' \in RequestsMade
      /\ \A g \in Fields : request'[g] = IF g = f THEN NoRequest ELSE request[g]
  BY <1>1 DEF ValidationInv, TypeOK, RequestsMade, NoRequest
<1>3. TypeOK' BY <1>1, <1>2 DEF ValidationInv, TypeOK, RequestsMade, parseVars, shownVars
<1>4. AnswersTrue'
  <2>1. ~NoRequest.kept BY DEF NoRequest
  <2> QED BY <1>1, <1>2, <2>1 DEF ValidationInv, AnswersTrue, AnswersTrueOf
<1>5. PostedMeets' BY <1>1, NotPosting
<1> QED BY <1>1, <1>3, <1>4, <1>5 DEF ValidationInv, RulesAttached, UnruledUntouched,
           LastCheckHeld, ContainersAgree, parseVars, shownVars

\* After a reset the answers under way are about nothing that is known.
LEMMA ResetValidationInv ==
    ASSUME ValidationInv, Reset
    PROVE  ValidationInv'
<1>1. /\ value' = [f \in Fields |-> 0]
      /\ errors' = {} /\ successes' = {} /\ submitted' = {}
      /\ invalid' = [f \in Fields |-> "unknown"]
      /\ previous' = [f \in Fields |-> IF f \in ruled THEN Unasked ELSE previous[f]]
      /\ request' = [f \in Fields |-> [request[f] EXCEPT !.kept = FALSE]]
      /\ box' = [f \in Fields |-> [box[f] EXCEPT !.class = "valid"]]
      /\ summary' = [summary EXCEPT !.class = "valid"]
      /\ edited' = (edited \/ formSubmitted)
      /\ UNCHANGED <<parseVars, pending, formSubmitted, posted, changes>>
  BY DEF Reset
<1>2. TypeOK /\ AnswersTrue /\ box \in Boxes /\ summary \in Summaries /\ request \in RequestsMade
      /\ previous \in Knowledge
  BY DEF ValidationInv, TypeOK, Boxes, Summaries, RequestsMade, Knowledge
<1>3. box' \in Boxes /\ \A f \in Fields : box'[f].class = "valid"
  BY <1>1, <1>2 DEF Boxes
<1>4. summary' \in Summaries BY <1>1, <1>2 DEF Summaries
<1>5. previous' \in Knowledge BY <1>1, <1>2 DEF Knowledge, Unasked
<1>6. request' \in RequestsMade BY <1>1, <1>2 DEF RequestsMade
<1>7. edited' \in BOOLEAN BY <1>1, <1>2 DEF TypeOK
<1>8. value' \in [Fields -> Values] /\ invalid' \in [Fields -> {"yes", "no", "unknown"}]
  BY <1>1, FormAssumption
<1>9. TypeOK'
  BY <1>1, <1>2, <1>3, <1>4, <1>5, <1>6, <1>7, <1>8
     DEF TypeOK, Boxes, Summaries, Knowledge, RequestsMade, parseVars
<1>10. AnswersTrue'
  <2> SUFFICES ASSUME NEW f \in Fields
               PROVE  /\ request'[f] # NoRequest => f \in pending'
                      /\ request'[f].kept => request'[f].value = previous'[f].old
                      /\ request'[f] # NoRequest /\ ~request'[f].kept => previous'[f] = Unasked
                      /\ f \notin pending' /\ previous'[f].valid => previous'[f].old \notin Taken
    BY DEF AnswersTrue, AnswersTrueOf
  <2>1. pending' = pending /\ pending \subseteq ruled
    BY <1>1, <1>2 DEF TypeOK
  <2>2. request'[f] = [request[f] EXCEPT !.kept = FALSE] /\ ~request'[f].kept
    BY <1>1, <1>2 DEF RequestsMade
  <2>3. request'[f] # NoRequest => f \in pending
    <3>1. request[f] \in [value : Values \cup {None}, kept : BOOLEAN]
      BY <1>2 DEF RequestsMade
    <3>2. request'[f] = [value |-> request[f].value, kept |-> FALSE] BY <2>2, <3>1
    <3>3. request[f] = NoRequest => request'[f] = NoRequest BY <3>2 DEF NoRequest
    <3> QED BY <1>2, <3>3 DEF AnswersTrue, AnswersTrueOf
  <2>4. CASE f \in ruled
    <3>1. previous'[f] = Unasked BY <1>1, <2>4
    <3>2. Unasked.old \notin Taken BY FormAssumption DEF Unasked, None
    <3> QED BY <2>1, <2>2, <2>3, <3>1, <3>2
  <2>5. CASE f \notin ruled
    <3>1. previous'[f] = previous[f] /\ f \notin pending BY <1>1, <2>1, <2>5
    <3> QED BY <1>2, <2>1, <2>2, <2>3, <3>1 DEF AnswersTrue, AnswersTrueOf
  <2> QED BY <2>4, <2>5
<1>11. UnruledUntouched' /\ LastCheckHeld' /\ ContainersAgree'
  BY <1>1, <1>3 DEF UnruledUntouched, LastCheckHeld, ContainersAgree
<1>12. RulesAttached' BY <1>1 DEF ValidationInv, RulesAttached, parseVars
<1>13. PostedMeets' BY <1>1, NotPosting
<1> QED BY <1>9, <1>10, <1>11, <1>12, <1>13 DEF ValidationInv

LEMMA LoadValidationInv ==
    ASSUME Load
    PROVE  ValidationInv'
<1>1. Init' BY DEF Load, Init
<1> QED BY <1>1, InitValidationInv, PTL

LEMMA NextValidationInv == ValidationInv /\ [Next]_vars => ValidationInv'
<1> SUFFICES ASSUME ValidationInv, [Next]_vars PROVE ValidationInv'
  OBVIOUS
<1>1. CASE UNCHANGED vars
  BY <1>1 DEF ValidationInv, TypeOK, RulesAttached, UnruledUntouched, LastCheckHeld, AnswersTrue,
     AnswersTrueOf, ContainersAgree, PostedMeets, Meets, vars, parseVars, remoteVars
<1>2. CASE Next
  BY <1>2, ParseValidationInv, TypeValidationInv, CheckValidationInv,
     SubmitUncheckedValidationInv, SubmitCancelledValidationInv, SubmitValidationInv,
     AcceptValidationInv, AcceptLastValidationInv, RefuseValidationInv, RequestFailsValidationInv,
     ResetValidationInv, LoadValidationInv
     DEF Next, Answer
<1> QED BY <1>1, <1>2

LEMMA AlwaysValidationInv == Spec => []ValidationInv
BY InitValidationInv, NextValidationInv, PTL DEF Spec

-----------------------------------------------------------------------------
(* The theorems.                                                           *)

\* The validator, the containers and the requests keep their types.
THEOREM ValidationTyped == Spec => []TypeOK
<1>1. ValidationInv => TypeOK BY DEF ValidationInv
<1> QED BY <1>1, AlwaysValidationInv, PTL

\* For any form, attributes and server, onError and onSuccess have left every
\* field that does not wait looking the way the validator holds it.
THEOREM ContainersCorrect == Spec => []ContainersAgree
<1>1. ValidationInv => ContainersAgree BY DEF ValidationInv
<1> QED BY <1>1, AlwaysValidationInv, PTL

\* For any form, attributes and server, no value gets past the rules the
\* validator has, though it may change while the server is asked.
THEOREM PostedCorrect == Spec => []PostedMeets
<1>1. ValidationInv => PostedMeets BY DEF ValidationInv
<1> QED BY <1>1, AlwaysValidationInv, PTL

=============================================================================
