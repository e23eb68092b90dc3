------------------------ MODULE UnobtrusiveValidation ------------------------
(***************************************************************************)
(* Client-side validation of one form: jquery.validate.unobtrusive.js,     *)
(* which turns data-val attributes into rules and shows what the validator *)
(* (jquery.validate.js) finds, and the part of the validator it drives.    *)
(* A browser runs one event handler at a time: each is a step.  Answers    *)
(* of the server to remote rules come in between.                          *)
(*                                                                         *)
(* A value is the length of a text, 0 being the empty one.                 *)
(***************************************************************************)
EXTENDS Integers, FiniteSets

CONSTANTS
    Fields,
    Attributes,     \* Attributes[f]: the data-val attributes of f
    Replace,        \* Replace[f]: data-valmsg-replace of its container
    Values,
    Taken,          \* the values that the server refuses
    MaxChanges,     \* bound: how often the user changes a value
    MayFail         \* whether a request to the server may fail

None == -1

ASSUME FormAssumption ==
    /\ Values \subseteq Nat
    /\ 0 \in Values
    /\ Taken \subseteq Values
    /\ Attributes \in [Fields -> [required : BOOLEAN, checkbox : BOOLEAN, remote : BOOLEAN,
                                  min : Nat \cup {None}, max : Nat \cup {None}]]
    /\ Replace \in [Fields -> {"true", "false", "absent"}]
    /\ MaxChanges \in Nat
    /\ MayFail \in BOOLEAN

VARIABLES
    value,          \* value[f]: what the user has entered
    parsed,         \* the fields whose rules validationInfo holds
    attached,       \* whether the form has a validator
    ruled,          \* the fields whose rules the validator has
    errors,         \* validator.errorMap: what the last check has found
    successes,      \* validator.successList
    invalid,        \* validator.invalid: "yes", "no", or "unknown" to it
    submitted,      \* the keys of validator.submitted
    previous,       \* previous[f]: the value a remote rule was last asked for
    request,        \* request[f]: the value asked for, until it is answered
    pending,        \* validator.pending, whose size is pendingRequest
    formSubmitted,  \* the form is to be posted after the last answer
    box,            \* box[f]: the container of f's message
    summary,        \* the container of the summary
    posted,         \* the form once it is posted: its values, the rules in force
    edited,         \* history: values changed since formSubmitted was set
    changes         \* counted for the bound

parseVars == <<parsed, attached, ruled>>
remoteVars == <<previous, request, pending>>
vars == <<value, parseVars, errors, successes, invalid, submitted, remoteVars,
          formSubmitted, box, summary, posted, edited, changes>>

Unasked == [old |-> None, valid |-> TRUE]
NoRequest == [value |-> None, kept |-> FALSE]
NotPosted == [done |-> FALSE, value |-> [f \in Fields |-> 0], ruled |-> {}]

Init ==
    /\ value = [f \in Fields |-> 0]
    /\ parsed = {}
    /\ attached = FALSE
    /\ ruled = {}
    /\ errors = {}
    /\ successes = {}
    /\ invalid = [f \in Fields |-> "unknown"]
    /\ submitted = {}
    /\ previous = [f \in Fields |-> Unasked]
    /\ request = [f \in Fields |-> NoRequest]
    /\ pending = {}
    /\ formSubmitted = FALSE
    /\ box = [f \in Fields |-> [class |-> "valid", text |-> FALSE]]
    /\ summary = [class |-> "valid", list |-> {}]
    /\ posted = NotPosted
    /\ edited = FALSE
    /\ changes = 0

-----------------------------------------------------------------------------
(* Attributes to rules: the adapters.                                      *)

Rule(name, params) == [name |-> name, params |-> params]

\* Mutant: of two bounds, the upper one is forgotten.
MinMaxFirst(a, minRule, maxRule, minMaxRule) ==
    CASE a.min # None -> {Rule(minRule, <<a.min>>)}
      [] a.min = None /\ a.max # None -> {Rule(maxRule, <<a.max>>)}
      [] OTHER -> {}

\* addMinMax: one rule, for the bounds there are.
MinMax(a, minRule, maxRule, minMaxRule) ==
    CASE a.min # None /\ a.max # None -> {Rule(minMaxRule, <<a.min, a.max>>)}
      [] a.min # None /\ a.max = None -> {Rule(minRule, <<a.min>>)}
      [] a.min = None /\ a.max # None -> {Rule(maxRule, <<a.max>>)}
      [] OTHER -> {}

Length(a) == MinMax(a, "minlength", "maxlength", "rangelength")

\* A checkbox that must be checked is no rule.
Required(a) == IF a.required /\ ~a.checkbox THEN {Rule("required", << >>)} ELSE {}

Remote(a) == IF a.remote THEN {Rule("remote", << >>)} ELSE {}

\* parseElement, with the rule that keeps rules from being empty.
Rules(f) ==
    LET a == Attributes[f] IN
    Length(a) \cup Required(a) \cup Remote(a) \cup {Rule("__dummy__", << >>)}

\* The methods of the rules that need no server; but required is all that an
\* empty value can fail.
Passes(rule, v) ==
    CASE rule.name = "required"    -> v > 0
      [] rule.name = "minlength"   -> v = 0 \/ v >= rule.params[1]
      [] rule.name = "maxlength"   -> v = 0 \/ v <= rule.params[1]
      [] rule.name = "rangelength" -> v = 0 \/ v \in rule.params[1] .. rule.params[2]
      [] OTHER                     -> TRUE

-----------------------------------------------------------------------------
(* Checking.                                                               *)

IsRemote(f) == \E rule \in Rules(f) : rule.name = "remote"

\* Validator.check.  The remote rule comes last; asked for the same value again,
\* it says what it knows, be the answer under way or not.
Verdict(f, known) ==
    CASE \E rule \in Rules(f) : ~Passes(rule, value[f]) -> "invalid"
      [] /\ \A rule \in Rules(f) : Passes(rule, value[f])
         /\ IsRemote(f) /\ value[f] # 0
         /\ known[f].old # value[f]                     -> "pending"
      [] /\ \A rule \in Rules(f) : Passes(rule, value[f])
         /\ IsRemote(f) /\ value[f] # 0
         /\ known[f].old = value[f] /\ ~known[f].valid  -> "invalid"
      [] OTHER                                          -> "valid"

With(S, known, verdict) == {f \in S : Verdict(f, known) = verdict}

\* What the validator knows once it has asked for the values of some fields.
Asked(known, asks) ==
    [f \in Fields |-> IF f \in asks THEN [known[f] EXCEPT !.old = value[f]] ELSE known[f]]

\* The requests of a check; one under way for the same field is aborted.
Ask(known, requests, waiting, asks) ==
    /\ previous' = Asked(known, asks)
    /\ request' = [f \in Fields |-> IF f \in asks THEN [value |-> value[f], kept |-> TRUE]
                                                   ELSE requests[f]]
    /\ pending' = waiting \cup asks

-----------------------------------------------------------------------------
(* Showing.                                                                *)

\* A message is placed: into the container, or hidden.
OnError(f, b) == [class |-> "error", text |-> b.text \/ Replace[f] = "true"]

\* Mutant: the container is emptied, but still looks like an error.
OnSuccessText(f, b) == [b EXCEPT !.text = @ /\ Replace[f] # "true"]

OnSuccess(f, b) == [class |-> "valid", text |-> b.text /\ Replace[f] # "true"]

\* showErrors: every label is a new one, also that of a success, which is placed
\* before it is taken for a success.
Shown(boxes, E, S) ==
    [f \in Fields |-> CASE f \in E     -> OnError(f, boxes[f])
                        [] f \in S \ E -> OnSuccess(f, OnError(f, boxes[f]))
                        [] OTHER       -> boxes[f]]

\* The handler of invalid-form.
OnErrors(E) ==
    summary' = IF E # {} THEN [class |-> "error", list |-> E] ELSE summary

\* The rest of form(), once the fields are checked.
Report(boxes, E, S) ==
    /\ errors' = E
    /\ successes' = S
    /\ submitted' = submitted \cup E
    /\ invalid' = [f \in Fields |-> IF f \in E THEN "yes" ELSE "unknown"]
    /\ OnErrors(E)
    /\ box' = Shown(boxes, E, S)

-----------------------------------------------------------------------------
(* What the page does.  A page is left once its form is posted.            *)

OnPage == posted = NotPosted

shownVars == <<errors, successes, invalid, submitted, box, summary>>

\* Mutant: every field of the form gets rules, parsed or not.
AttachValidationAll ==
    /\ attached' = TRUE
    /\ ruled' = IF attached THEN ruled ELSE Fields

\* parse (and parseElement, unless told to skip it) attaches the validator.  The
\* rules parsed by then are copied: later ones do not reach it.
AttachValidation ==
    /\ attached' = TRUE
    /\ ruled' = IF attached THEN ruled ELSE parsed'

ParseElement(f, skipAttach) ==
    /\ OnPage
    /\ parsed' = parsed \cup {f}
    /\ IF skipAttach THEN UNCHANGED <<attached, ruled>> ELSE AttachValidation
    /\ UNCHANGED <<value, shownVars, remoteVars, formSubmitted, posted, edited, changes>>

Parse(S) ==
    /\ OnPage
    /\ parsed' = parsed \cup S
    /\ AttachValidation
    /\ UNCHANGED <<value, shownVars, remoteVars, formSubmitted, posted, edited, changes>>

Type(f, v) ==
    /\ OnPage
    /\ changes < MaxChanges
    /\ v # value[f]
    /\ value' = [value EXCEPT ![f] = v]
    /\ edited' = (edited \/ formSubmitted)
    /\ changes' = changes + 1
    /\ UNCHANGED <<parseVars, shownVars, remoteVars, formSubmitted, posted>>

\* onfocusout and onkeyup: validator.element.
CheckField(f) ==
    LET checked == {f} \cap ruled IN
    /\ OnPage
    /\ attached
    /\ value[f] # 0 \/ f \in submitted \/ invalid[f] # "unknown"
    /\ errors' = With(checked, previous, "invalid")
    /\ successes' = With(checked, previous, "valid")
    /\ submitted' = submitted \cup errors'
    /\ invalid' = [invalid EXCEPT ![f] = IF f \in errors' THEN "yes" ELSE "no"]
    /\ box' = Shown(box, errors', successes')
    /\ Ask(previous, request, pending, With(checked, previous, "pending"))
    /\ UNCHANGED <<value, parseVars, formSubmitted, summary, posted, edited, changes>>

PostUnder(rules) == posted' = [done |-> TRUE, value |-> value, ruled |-> rules]

Post == PostUnder(ruled)

\* The form is submitted before it has a validator: nothing is checked.
SubmitUnchecked ==
    /\ OnPage
    /\ ~attached
    /\ Post
    /\ UNCHANGED <<value, parseVars, shownVars, remoteVars, formSubmitted, edited, changes>>

\* The button that submits the form has the class cancel or a formnovalidate:
\* no rule is in force, whatever waits or was found before.
SubmitCancelled ==
    /\ OnPage
    /\ attached
    /\ PostUnder({})
    /\ UNCHANGED <<value, parseVars, shownVars, remoteVars, formSubmitted, edited, changes>>

\* The handler of submit: a valid form with requests under way is posted later.
Submit ==
    LET E == With(ruled, previous, "invalid") IN
    /\ OnPage
    /\ attached
    /\ Report(box, E, With(ruled, previous, "valid"))
    /\ Ask(previous, request, pending, With(ruled, previous, "pending"))
    /\ formSubmitted' = (formSubmitted \/ (E = {} /\ pending' # {}))
    /\ edited' = (edited /\ (E # {} \/ pending' = {}))
    /\ IF E = {} /\ pending' = {} THEN Post ELSE UNCHANGED posted
    /\ UNCHANGED <<value, parseVars, changes>>

-----------------------------------------------------------------------------
(* What the server's answers do: success of the remote method, then        *)
(* stopRequest.                                                            *)

Answered(f) ==
    /\ OnPage
    /\ request[f] # NoRequest

Requests(f) == [request EXCEPT ![f] = NoRequest]

\* Only the data of a form that was not reset since knows the answer.
Known(f, ok) == IF request[f].kept THEN [previous EXCEPT ![f].valid = ok] ELSE previous

Last(f) == formSubmitted /\ pending = {f}

\* f is all right, and there is nothing to post yet.
Accept(f) ==
    /\ Answered(f)
    /\ request[f].value \notin Taken
    /\ ~Last(f)
    /\ errors' = {}
    /\ successes' = {f}
    /\ invalid' = [invalid EXCEPT ![f] = "no"]
    /\ box' = Shown(box, {}, {f})
    /\ Ask(Known(f, TRUE), Requests(f), pending \ {f}, {})
    /\ UNCHANGED <<value, parseVars, submitted, formSubmitted, summary, posted, edited, changes>>

\* Mutant: the form is posted as it is, without another look.
PostLate(f) ==
    /\ Answered(f)
    /\ request[f].value \notin Taken
    /\ Last(f)
    /\ Report(Shown(box, {}, {f}), {}, {f})
    /\ Ask(Known(f, TRUE), Requests(f), {}, {})
    /\ formSubmitted' = FALSE
    /\ Post
    /\ UNCHANGED <<value, parseVars, edited, changes>>

\* The last answer: form() once more; if it finds nothing wrong, the form is
\* submitted, which calls form() again, and knows the values just asked for.  When
\* some were asked for, that submission does not post.
AcceptLast(f) ==
    LET known == Known(f, TRUE)
        asks == With(ruled, known, "pending")
        wrong == With(ruled, known, "invalid") # {}
        then == IF wrong THEN known ELSE Asked(known, asks)
    IN
    /\ Answered(f)
    /\ request[f].value \notin Taken
    /\ Last(f)
    /\ Report(Shown(box, {}, {f}), With(ruled, then, "invalid"), With(ruled, then, "valid"))
    /\ Ask(known, Requests(f), {}, asks)
    /\ formSubmitted' = wrong
    /\ IF ~wrong /\ asks = {} THEN Post ELSE UNCHANGED posted
    /\ UNCHANGED <<value, parseVars, edited, changes>>

\* Mutant: the form waits for the last answer, though the first was a refusal.
RefuseQuietly(f) ==
    /\ Answered(f)
    /\ request[f].value \in Taken
    /\ Ask(Known(f, FALSE), Requests(f), pending \ {f}, {})
    /\ UNCHANGED <<value, parseVars, shownVars, formSubmitted, posted, edited, changes>>

\* f is refused: its message joins those of the last check.
Refuse(f) ==
    /\ Answered(f)
    /\ request[f].value \in Taken
    /\ errors' = errors \cup {f}
    /\ successes' = successes \ {f}
    /\ invalid' = [invalid EXCEPT ![f] = "yes"]
    /\ box' = Shown(box, errors', successes')
    /\ Ask(Known(f, FALSE), Requests(f), pending \ {f}, {})
    /\ IF Last(f) THEN OnErrors(errors') ELSE UNCHANGED summary
    /\ formSubmitted' = (formSubmitted /\ ~Last(f))
    /\ UNCHANGED <<value, parseVars, submitted, posted, edited, changes>>

\* Nobody handles a failure: the field stays pending.
RequestFails(f) ==
    /\ Answered(f)
    /\ MayFail
    /\ request' = Requests(f)
    /\ UNCHANGED <<value, parseVars, shownVars, previous, pending, formSubmitted, posted,
                   edited, changes>>

\* onReset, resetForm, and the reset of the inputs itself.  The requests go on.
Reset ==
    LET clean(b) == [b EXCEPT !.class = "valid"] IN
    /\ OnPage
    /\ attached
    /\ value' = [f \in Fields |-> 0]
    /\ errors' = {}
    /\ successes' = {}
    /\ submitted' = {}
    /\ invalid' = [f \in Fields |-> "unknown"]
    /\ previous' = [f \in Fields |-> IF f \in ruled THEN Unasked ELSE previous[f]]
    /\ request' = [f \in Fields |-> [request[f] EXCEPT !.kept = FALSE]]
    /\ box' = [f \in Fields |-> clean(box[f])]
    /\ summary' = clean(summary)
    /\ edited' = (edited \/ formSubmitted)
    /\ UNCHANGED <<parseVars, pending, formSubmitted, posted, changes>>

\* The answer to a posted form is a new page.
Load ==
    /\ ~OnPage
    /\ value' = [f \in Fields |-> 0]
    /\ parsed' = {} /\ attached' = FALSE /\ ruled' = {}
    /\ errors' = {} /\ successes' = {} /\ submitted' = {}
    /\ invalid' = [f \in Fields |-> "unknown"]
    /\ previous' = [f \in Fields |-> Unasked]
    /\ request' = [f \in Fields |-> NoRequest]
    /\ pending' = {}
    /\ formSubmitted' = FALSE
    /\ box' = [f \in Fields |-> [class |-> "valid", text |-> FALSE]]
    /\ summary' = [class |-> "valid", list |-> {}]
    /\ posted' = NotPosted
    /\ edited' = FALSE
    /\ changes' = 0

Answer(f) == Accept(f) \/ AcceptLast(f) \/ Refuse(f)

Next ==
    \/ \E f \in Fields : ParseElement(f, TRUE) \/ ParseElement(f, FALSE)
    \/ \E S \in SUBSET Fields : Parse(S)
    \/ \E f \in Fields, v \in Values : Type(f, v)
    \/ \E f \in Fields : CheckField(f)
    \/ SubmitUnchecked
    \/ Submit
    \/ SubmitCancelled
    \/ \E f \in Fields : Answer(f)
    \/ \E f \in Fields : RequestFails(f)
    \/ Reset
    \/ Load

Spec == Init /\ [][Next]_vars

\* A server that answers.
FairSpec == Spec /\ \A f \in Fields : WF_vars(Answer(f))

-----------------------------------------------------------------------------

\* Every variable has its type; what waits has rules.
TypeOK ==
    /\ value \in [Fields -> Values]
    /\ parsed \subseteq Fields /\ ruled \subseteq parsed
    /\ attached \in BOOLEAN
    /\ errors \subseteq Fields /\ successes \subseteq Fields /\ submitted \subseteq Fields
    /\ invalid \in [Fields -> {"yes", "no", "unknown"}]
    /\ previous \in [Fields -> [old : Values \cup {None}, valid : BOOLEAN]]
    /\ request \in [Fields -> [value : Values \cup {None}, kept : BOOLEAN]]
    /\ pending \subseteq ruled
    /\ formSubmitted \in BOOLEAN /\ edited \in BOOLEAN
    /\ box \in [Fields -> [class : {"valid", "error"}, text : BOOLEAN]]
    /\ summary \in [class : {"valid", "error"}, list : SUBSET Fields]
    /\ posted \in [done : BOOLEAN, value : [Fields -> Values], ruled : SUBSET Fields]
    /\ changes \in 0 .. MaxChanges

\* What unobtrusive validation shows is what the validator knows: unless a field
\* waits for the server, its container looks like an error exactly when the
\* validator holds the field for invalid, whatever checks, answers (late ones
\* too) and resets came in between.
ContainersAgree ==
    \A f \in Fields \ pending : box[f].class = "error" <=> invalid[f] = "yes"

\* What the attributes ask of a value, and the server.
Meets(f, v) ==
    LET a == Attributes[f] IN
    /\ a.required /\ ~a.checkbox => v # 0
    /\ v # 0 => /\ a.min # None => v >= a.min
                /\ a.max # None => v <= a.max
                /\ a.remote => v \notin Taken

\* A form that validation lets through meets the attributes of every field that
\* the validator has rules for, at the time it is posted: also when it was
\* submitted earlier, and its values were changed while the server was asked.
\* (A button that cancels validation puts no rules in force.)
PostedMeets == \A f \in posted.ruled : Meets(f, posted.value[f])

\* A submission that waits for the server comes to an end: the form is posted, or
\* nothing is waited for any more and the user is shown a field that the validator
\* holds for invalid; unless the user changes the form meanwhile, or a request
\* fails.  (After a failed one the code waits for ever.)
SubmissionAnswered ==
    formSubmitted ~> \/ ~OnPage
                     \/ /\ pending = {}
                        /\ \E f \in ruled : invalid[f] = "yes" /\ box[f].class = "error"
                     \/ edited
                     \/ \E f \in pending : request[f] = NoRequest

=============================================================================
