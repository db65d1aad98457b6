--------------------------- MODULE RequestCompiler ---------------------------
(***************************************************************************)
(* How the requests of one branch become the bodies that are sent:         *)
(* compileSupportedRequest of proxy/handler.ts up to the compiled body,    *)
(* and ImmutableRequestCompiler.compile, on the trees of Providers.        *)
(*                                                                         *)
(* A client sends requests that continue the branch, or that do not parse; *)
(* between them the user orders surgeries on what the catalog shows and    *)
(* restores them.  Each committed surgery is tried on the received request *)
(* and gets a result, the bootstrap text is put before its anchor, and the *)
(* outcome is compared with the received request once more before it is    *)
(* sent.  What a request is refused for, and what is sent, is the subject. *)
(***************************************************************************)
EXTENDS Providers, Sequences, SequencesExt

CONSTANTS
  Requests,     \* the requests clients may send
  Contents,     \* the texts a user may put in the place of one
  Signed,       \* the texts that quote the signature of the bootstrap text
  MaxRequests,  \* bound: how many requests are sent
  MaxOrders     \* bound: how many surgeries are active at a time

Absent == "absent"
Fields == {Absent, "blank", "given", "more"}
Params == [instructions : Fields, max_tokens : Fields,
           max_output_tokens : Fields, chat_only : Fields]
Paths == Providers
Trees == UNION {[places -> Nodes] : places \in SUBSET Places}

ASSUME RequestAssumption ==
  /\ \A r \in Requests :
       /\ DOMAIN r = {"path", "list", "params", "tree"}
       /\ r.path \in Paths
       /\ r.list \in {"messages", "input"}
       /\ r.params \in Params
       /\ DOMAIN r.tree \subseteq Places
       /\ \A p \in DOMAIN r.tree : r.tree[p] \in Nodes
  /\ Contents \subseteq Words /\ Signed \subseteq Words
  /\ MaxRequests \in Nat
  /\ MaxOrders \in Nat

VARIABLES
  branch,       \* what the tracker knows: the last history and all observed
  catalog,      \* the last request that was published, or none
  orders,       \* the active surgeries, in the order of their commits
  placement,    \* the placement of the bootstrap text
  request,      \* the request at hand, or none
  candidate,    \* what it is made into: parameters and tree
  applied,      \* the values that were put in it, by place
  results,      \* what became of the surgeries, and of the bootstrap text
  phase,        \* resting, editing, checking, sent or refused
  requests      \* bound: requests received

vars == <<branch, catalog, orders, placement, request, candidate, applied,
          results, phase, requests>>

None == [path |-> "none", list |-> "none", params |-> <<>>, tree |-> <<>>]
NoCandidate == [params |-> <<>>, tree |-> <<>>]
NoPlace == <<0, 0, 0>>

Resting == {"resting", "sent", "refused"}

(* routeFor: a chat completion without messages but with input is one of   *)
(* the Responses dialect.                                                  *)
Provider(r) ==
  IF r.path = Chat /\ r.list = "input" THEN Responses ELSE r.path

Cursor(r) == r.path = Chat /\ Provider(r) = Responses

(* A tree is a body of its dialect: the items are numbered and hold the    *)
(* parts, messages are items, and the only ones outside the Responses      *)
(* dialect, parts have no role, only the content of a message or of a      *)
(* result is a string (Chat Completions has no results), and outside the   *)
(* Responses dialect there is one type of text.                            *)
ASSUME ShapeAssumption ==
  \A r \in Requests : \A p \in DOMAIN r.tree :
    LET n == r.tree[p]
    IN  /\ Item(p) \in DOMAIN r.tree
        /\ p[1] > 1 => <<p[1] - 1, 0, 0>> \in DOMAIN r.tree
        /\ p = Item(p) => n.type \notin TextTypes \cup MediaTypes
        /\ p # Item(p) => n.type # "message" /\ n.role = "none"
        /\ p = Item(p) /\ Provider(r) # Responses => n.type = "message"
        /\ n.type \in TextTypes \cup MediaTypes => n.form = "none"
        /\ n.form = "string" =>
             n.type = "message" \/ (n.type = "result" /\ Provider(r) # Chat)
        /\ Provider(r) # Responses /\ n.type \in TextTypes => n.type = "text"

Exact(occurrence, r) ==
  /\ occurrence.at \in Occurrences(Provider(r), r.tree)
  /\ Identity(Provider(r), r.tree, occurrence.at) = occurrence.identity

(***************************************************************************)
(* The branch of a request.                                                *)
(***************************************************************************)
(* canonicalizeItem: the texts of what user and assistant say, in whatever *)
(* form, and all of anything else.                                         *)
Canonical(tree, m) ==
  LET places == {p \in DOMAIN tree : Item(p) = m}
  IN  IF tree[m].role \in {"user", "assistant"}
      THEN {<<tree[m].role>>} \cup
           {<<q[2], q[3], Value(tree[q])>> : q \in places \ {m}} \cup
           IF tree[m].form = "string" THEN {<<1, 0, Value(tree[m])>>} ELSE {}
      ELSE {<<q[2], q[3], Hashed(tree[q])>> : q \in places}

History(tree) ==
  [i \in 1 .. Cardinality(Items(tree)) |-> Canonical(tree, <<i, 0, 0>>)]

Observe(history) ==
  branch' = [last |-> IF history \in branch.observed THEN branch.last ELSE history,
             observed |-> branch.observed \cup {history}]

(* observe() resolves to this branch: seen before, extended, or trimmed at *)
(* its beginning.                                                          *)
Continues(history) ==
  \/ branch.observed = {}
  \/ history \in branch.observed
  \/ IsPrefix(branch.last, history)
  \/ /\ ~IsPrefix(history, branch.last)
     /\ \E n \in 2 .. Len(history) :
          IsSuffix(SubSeq(history, 1, n), branch.last)

(***************************************************************************)
(* reconcileBootstrapState: where the bootstrap text goes.                 *)
(***************************************************************************)
FirstUsers(r) ==
  LET users == {p \in Occurrences(Provider(r), r.tree) :
                  /\ Kind(r.tree, p) = "user-text"
                  /\ Mutable(Provider(r), r.tree, p)}
  IN  {p \in users : \A q \in users : UpTo(p, q)}

AnchorAt(r, p) ==
  [at |-> p, identity |-> Identity(Provider(r), r.tree, p),
   source |-> Value(r.tree[p])]

NoAnchor == [at |-> NoPlace, identity |-> {}, source |-> [text |-> NoText]]

(* At the anchor's place stands its text with the bootstrap text before it.*)
Echoes(anchor, tree) ==
  /\ anchor.at \in DOMAIN tree
  /\ IsText(tree[anchor.at])
  /\ tree[anchor.at].text.prefixes > 0
  /\ [text |-> [tree[anchor.at].text EXCEPT !.prefixes = @ - 1]] = anchor.source

Found(anchor, r) ==
  Exact(anchor, r) \/
  (anchor.at \in Occurrences(Provider(r), r.tree) /\ Echoes(anchor, r.tree))

(* initialDecision: a text that holds the signature, in the bootstrap text *)
(* before it or in its own words, is left as it is.                        *)
InitialDecision(n) ==
  IF n.text.prefixes > 0 \/ n.text.word \in Signed THEN "preserve" ELSE "inject"

Reconciled(place, r) ==
  CASE place.status = "awaiting" /\ FirstUsers(r) # {} ->
         LET p == CHOOSE p \in FirstUsers(r) : TRUE
         IN  [status |-> "anchored", anchor |-> AnchorAt(r, p), moved |-> FALSE,
              decision |-> InitialDecision(r.tree[p])]
    [] place.status = "anchored" /\ ~Found(place.anchor, r) ->
         IF ~place.moved /\ FirstUsers(r) # {}
         THEN [place EXCEPT !.anchor = AnchorAt(r, CHOOSE p \in FirstUsers(r) : TRUE),
                            !.moved = TRUE]
         ELSE [place EXCEPT !.anchor = NoAnchor, !.status = "stopped"]
    [] OTHER -> place

Init ==
  /\ branch = [last |-> <<>>, observed |-> {}]
  /\ catalog = None
  /\ orders = <<>>
  /\ \E status \in {"off", "awaiting"} :
       placement = [status |-> status, anchor |-> NoAnchor, moved |-> FALSE,
                    decision |-> "pending"]
  /\ request = None
  /\ candidate = NoCandidate
  /\ applied = <<>>
  /\ results = <<>>
  /\ phase = "resting"
  /\ requests = 0

(***************************************************************************)
(* The user.                                                               *)
(***************************************************************************)
Actions(tree, p) ==
  {[kind |-> "evict", text |-> Evicted]} \cup
  IF IsText(tree[p]) THEN {[kind |-> "replace", text |-> word] : word \in Contents} ELSE {}

(* The last request is over. *)
Forget ==
  /\ request' = None
  /\ candidate' = NoCandidate
  /\ applied' = <<>>
  /\ results' = <<>>
  /\ phase' = "resting"

(* StateControl.surgery.  seen is for the properties: what the user saw.   *)
OrderSurgery(p, action) ==
  /\ phase \in Resting
  /\ Len(orders) < MaxOrders
  /\ catalog # None
  /\ LET provider == Provider(catalog)
         identity == Identity(provider, catalog.tree, p)
     IN  /\ p \in Occurrences(provider, catalog.tree)
         /\ Mutable(provider, catalog.tree, p)
         /\ action \in Actions(catalog.tree, p)
         /\ \A i \in DOMAIN orders : orders[i].identity # identity
         /\ orders' = Append(orders, [at |-> p, identity |-> identity,
                                      source |-> Value(catalog.tree[p]),
                                      action |-> action, seen |-> catalog.tree])
  /\ Forget
  /\ UNCHANGED <<branch, catalog, placement, requests>>

(* StateControl.reverse *)
Restore(i) ==
  /\ phase \in Resting
  /\ i \in DOMAIN orders
  /\ orders' = RemoveAt(orders, i)
  /\ Forget
  /\ UNCHANGED <<branch, catalog, placement, requests>>

(***************************************************************************)
(* The request.                                                            *)
(***************************************************************************)
Arrives(r) ==
  /\ phase \in Resting
  /\ requests < MaxRequests
  /\ requests' = requests + 1
  /\ catalog # None => Provider(r) = Provider(catalog)
  /\ request' = r
  /\ results' = <<>>
  /\ applied' = <<>>

(* assertPristineProjection *)
Reject(r) ==
  /\ Arrives(r)
  /\ ~Sound(Provider(r), r.tree)
  /\ candidate' = NoCandidate
  /\ phase' = "refused"
  /\ UNCHANGED <<branch, catalog, orders, placement>>

(* normalizeCursorResponses, and the adapter's instructions. *)
Normalized(r) ==
  LET p == r.params
      named == IF Provider(r) = Responses /\ p.instructions = Absent
               THEN [p EXCEPT !.instructions = "blank"] ELSE p
  IN  IF Cursor(r)
      THEN [named EXCEPT !.chat_only = Absent,
                         !.max_tokens = Absent,
                         !.max_output_tokens = IF @ = Absent THEN p.max_tokens ELSE @]
      ELSE named

(* resolveV2Projection, reconcileBootstrapState and the first half of      *)
(* compile: everything up to the surgeries.                                *)
Receive(r) ==
  /\ Arrives(r)
  /\ Sound(Provider(r), r.tree)
  /\ Continues(History(r.tree))
  /\ Observe(History(r.tree))
  /\ catalog' = r
  /\ placement' = Reconciled(placement, r)
  /\ candidate' = [params |-> Normalized(r), tree |-> Rewritten(Provider(r), r.tree)]
  /\ phase' = "editing"
  /\ UNCHANGED orders

Put(f, x, y) == [z \in DOMAIN f \cup {x} |-> IF z = x THEN y ELSE f[z]]

Result(of, at, outcome, output, shared) ==
  [of |-> of, at |-> at, outcome |-> outcome, output |-> output, shared |-> shared]

NoOutput == [text |-> NoText]

(* The surgery whose turn it is, and what becomes of it. *)
Turn == orders[Len(results) + 1]

Outcome(order) ==
  IF ~Exact(order, request) THEN "stale"
  ELSE IF Value(request.tree[order.at]) # order.source THEN "stale"
  ELSE IF ~Mutable(Provider(request), request.tree, order.at) THEN "protected-residue"
  ELSE IF order.at \in DOMAIN applied THEN "rejected"
  ELSE "applied"

(* One round of the loop over the surgeries. *)
Operate ==
  /\ phase = "editing"
  /\ Len(results) < Len(orders)
  /\ LET p == Turn.at
         outcome == Outcome(Turn)
         edited == Edited(Provider(request), candidate.tree, p, Plain(Turn.action.text))
         output == ValueAt(request.tree[p], edited)
     IN  IF outcome = "applied"
         THEN /\ candidate' = [candidate EXCEPT !.tree[p] = edited]
              /\ applied' = Put(applied, p, output)
              /\ results' = Append(results, Result("user", p, "applied", output, FALSE))
         ELSE /\ results' = Append(results, Result("user", p, outcome, NoOutput, FALSE))
              /\ UNCHANGED <<candidate, applied>>
  /\ UNCHANGED <<branch, catalog, orders, placement, request, phase, requests>>

Fatal == \E i \in DOMAIN results : results[i].outcome \in {"stale", "rejected"}

(* The occurrence before which the bootstrap text goes: the anchor itself  *)
(* in the received request, or an echo of it in the candidate.             *)
AtAnchor ==
  \/ Exact(placement.anchor, request)
  \/ /\ placement.anchor.at \in Occurrences(Provider(request), request.tree)
     /\ Echoes(placement.anchor, candidate.tree)

Prefixed(n) == [n EXCEPT !.text.prefixes = @ + 1]

(* Mutant: the bootstrap text forgets the result of the surgery it joins. *)
SharedNot(p, output) == results

(* The results at place p get the output of what was put there last. *)
Shared(p, output) ==
  [i \in DOMAIN results |->
     IF results[i].at = p /\ results[i].outcome = "applied"
     THEN [results[i] EXCEPT !.output = output, !.shared = TRUE]
     ELSE results[i]]

Inject(p) ==
  LET n == candidate.tree[p]
      prior == p \in DOMAIN applied
  IN  IF ~prior /\ Echoes(placement.anchor, candidate.tree)
      THEN /\ results' = Append(results, Result("bootstrap", p, "applied", Value(n), FALSE))
           /\ UNCHANGED <<candidate, applied>>
      ELSE LET output == Value(Prefixed(n))
           IN  /\ candidate' = [candidate EXCEPT !.tree[p] = Prefixed(n)]
               /\ applied' = Put(applied, p, output)
               /\ results' = Append(Shared(p, output),
                                    Result("bootstrap", p, "applied", output, prior))

Preserve(p) ==
  LET output == Value(candidate.tree[p])
  IN  /\ results' = Append(IF p \in DOMAIN applied THEN Shared(p, output) ELSE results,
                           Result("bootstrap", p, "applied", output, p \in DOMAIN applied))
      /\ UNCHANGED <<candidate, applied>>

(* The placement's part of compile. *)
Bootstrap ==
  /\ phase = "editing"
  /\ Len(results) = Len(orders)
  /\ \/ /\ placement.status \in {"off", "awaiting"}
        /\ phase' = "checking"
        /\ UNCHANGED <<candidate, applied, results>>
     \/ /\ placement.status = "stopped"
        /\ phase' = "checking"
        /\ results' = Append(results,
             Result("bootstrap", NoPlace, "protected-residue", NoOutput, FALSE))
        /\ UNCHANGED <<candidate, applied>>
     \/ /\ placement.status = "anchored"
        /\ AtAnchor /\ IsText(candidate.tree[placement.anchor.at])
        /\ phase' = "checking"
        /\ IF placement.decision = "inject" THEN Inject(placement.anchor.at)
           ELSE Preserve(placement.anchor.at)
     \/ /\ placement.status = "anchored"
        /\ ~(AtAnchor /\ IsText(candidate.tree[placement.anchor.at]))
        /\ phase' = "refused"
        /\ UNCHANGED <<candidate, applied, results>>
  /\ UNCHANGED <<branch, catalog, orders, placement, request, requests>>

(* What surgeries and bootstrap put in is there, and nothing else changed. *)
Reconciles ==
  /\ \A p \in Occurrences(Provider(request), request.tree) :
       ValueAt(request.tree[p], candidate.tree[p]) =
         IF p \in DOMAIN applied THEN applied[p] ELSE Value(request.tree[p])
  /\ \A m \in Envelopes(Provider(request), request.tree) :
       Whole(candidate.tree, m) = Whole(request.tree, m)

Accepted ==
  /\ ~Fatal
  /\ Reconciles
  /\ Valid(Provider(request), request.tree, candidate.tree)

(* The end of compile. *)
Check ==
  /\ phase = "checking"
  /\ phase' = IF Accepted THEN "sent" ELSE "refused"
  /\ UNCHANGED <<branch, catalog, orders, placement, request, candidate,
                 applied, results, requests>>

OrderOne == \E p \in DOMAIN catalog.tree : \E action \in Actions(catalog.tree, p) : OrderSurgery(p, action)

RestoreOne == \E i \in DOMAIN orders : Restore(i)

RejectOne == \E r \in Requests : Reject(r)

ReceiveOne == \E r \in Requests : Receive(r)

Next == OrderOne \/ RestoreOne \/ RejectOne \/ ReceiveOne \/ Operate \/ Bootstrap \/ Check

Spec == Init /\ [][Next]_vars

(***************************************************************************)
(* Properties.                                                             *)
(***************************************************************************)
TypeOK ==
  /\ branch.observed = {} => branch.last = <<>>
  /\ catalog \in Requests \cup {None}
  /\ Len(orders) <= MaxOrders
  /\ \A i \in DOMAIN orders :
       /\ orders[i].at \in DOMAIN orders[i].seen
       /\ orders[i].action.text \in Words
  /\ placement.status \in {"off", "awaiting", "anchored", "stopped"}
  /\ placement.decision \in {"pending", "inject", "preserve"}
  /\ request \in Requests \cup {None}
  /\ candidate.tree \in [DOMAIN candidate.tree -> Nodes]
  /\ DOMAIN applied \subseteq DOMAIN candidate.tree
  /\ \A i \in DOMAIN results : results[i].of \in {"user", "bootstrap"}
  /\ phase \in {"resting", "editing", "checking", "sent", "refused"}
  /\ requests \in 0 .. MaxRequests

(* The user saw, up to the place of an order, what the request holds. *)
AsSeen(order) ==
  LET provider == Provider(request)
      Before(tree) == {q \in Occurrences(provider, tree) : UpTo(q, order.at)}
      Above(tree) == {m \in Envelopes(provider, tree) : m[1] < order.at[1]}
  IN  /\ Before(order.seen) = Before(request.tree)
      /\ \A q \in Before(request.tree) :
           /\ Kind(order.seen, q) = Kind(request.tree, q)
           /\ Value(order.seen[q]) = Value(request.tree[q])
      /\ Above(order.seen) = Above(request.tree)
      /\ \A m \in Above(request.tree) : Whole(order.seen, m) = Whole(request.tree, m)

(* A surgery is only carried out in the history it was ordered in. *)
SameHistory ==
  phase = "sent" =>
    \A i \in DOMAIN orders : results[i].outcome = "applied" => AsSeen(orders[i])

OrderedAt(p) ==
  {i \in DOMAIN orders : orders[i].at = p /\ results[i].outcome = "applied"}

Injected(p) ==
  /\ placement.status = "anchored"
  /\ placement.decision = "inject"
  /\ placement.anchor.at = p
  /\ ~Echoes(placement.anchor, request.tree)

(* The text that belongs at place p of the request that is sent. *)
TextDue(p) ==
  LET text == IF OrderedAt(p) = {} THEN request.tree[p].text
              ELSE Plain(orders[CHOOSE i \in OrderedAt(p) : TRUE].action.text)
  IN  IF Injected(p) THEN [text EXCEPT !.prefixes = @ + 1] ELSE text

(* What an array's text keeps of itself in the Responses dialect: the text. *)
Kept(n) == IF Provider(request) = Responses /\ n.type \in TextTypes THEN [text |-> n.text] ELSE n

(* The limit on the output that the client asked for, in either API.       *)
LimitOf(params) ==
  IF params.max_output_tokens = Absent THEN params.max_tokens ELSE params.max_output_tokens

(* What stands at place p is what was received there, with its edit. *)
ExactAt(p) ==
  LET before == request.tree[p]
      after == candidate.tree[p]
  IN  IF IsMedia(before) /\ OrderedAt(p) # {}
      THEN /\ after.type \in TextTypes
           /\ after.text = TextDue(p)
           /\ Provider(request) # Chat => after.cache = before.cache
      ELSE Kept(after) = Kept([before EXCEPT !.text = TextDue(p)])

(* Final provider reconciliation (compiler.ts): what is sent is what was   *)
(* received, with each surgery at its place, the bootstrap text once       *)
(* before its anchor, an image or document replaced by a text that keeps   *)
(* its cache mark, and nothing else changed in the messages, nor in the    *)
(* limit on the output.  (The adapter of the Responses API does add empty  *)
(* instructions.)                                                          *)
ExactEdit ==
  phase = "sent" =>
    /\ DOMAIN candidate.tree = DOMAIN request.tree
    /\ \A p \in DOMAIN request.tree : ExactAt(p)
    /\ LimitOf(candidate.params) = LimitOf(request.params)
    /\ ~Cursor(request) => candidate.params.chat_only = request.params.chat_only

(* A result of what was put at a place says what stands there, and whether *)
(* another result says so too.                                             *)
TrueResult(i) ==
  results[i].outcome = "applied" =>
    /\ results[i].output =
         ValueAt(request.tree[results[i].at], candidate.tree[results[i].at])
    /\ results[i].shared <=>
         \E j \in DOMAIN results \ {i} :
           results[j].at = results[i].at /\ results[j].outcome = "applied"

(* Every surgery has one result, in its order, and the bootstrap text one  *)
(* after them; what a result says was put there is what is sent, also when *)
(* two of them share a place.                                              *)
ResultsTruthful ==
  phase = "sent" =>
    LET bootstrap == IF placement.status \in {"anchored", "stopped"} THEN 1 ELSE 0
    IN  /\ Len(results) = Len(orders) + bootstrap
        /\ \A i \in DOMAIN orders : results[i].of = "user" /\ results[i].at = orders[i].at
        /\ \A i \in DOMAIN results : TrueResult(i)

(* The texts the Messages API does not take when they are empty. *)
Blanked(i) ==
  /\ Provider(request) = Anthropic
  /\ orders[i].action.text = Blank
  /\ orders[i].at[3] = 0
  /\ request.tree[orders[i].at].type # "result"

(* The anchor was found again in a Chat message of another role, which     *)
(* holds the same text at the same place after a trim: nothing may be put  *)
(* there, and the anchor does not move.                                    *)
Misplaced ==
  /\ Provider(request) = Chat
  /\ Injected(placement.anchor.at)
  /\ RoleAt(request.tree, placement.anchor.at) \notin ChatRoles

(* A request is only refused when it is malformed, when a surgery was      *)
(* ordered in another history, when one blanks a text that must not be     *)
(* empty, when a message of the Responses dialect is an empty string, when *)
(* a surgery is on a text the client already sends with the bootstrap      *)
(* text, or when the anchor is misplaced: no other combination fails the   *)
(* reconciliation or the validation.                                       *)
RefusedForCause ==
  phase = "refused" =>
    \/ ~Sound(Provider(request), request.tree)
    \/ \E i \in DOMAIN orders :
         \/ ~AsSeen(orders[i])
         \/ Blanked(i)
         \/ orders[i].at = placement.anchor.at /\ Echoes(placement.anchor, request.tree)
    \/ /\ Provider(request) = Responses
       /\ \E m \in Items(request.tree) :
            request.tree[m].type = "message" /\ request.tree[m].form = "string" /\
            request.tree[m].text = Plain(Blank)
    \/ Misplaced

(* "Build a candidate from a deep clone while preserving all unknown       *)
(* fields." (CONTEXT-SURGEON-V2-PLAN.md:200)                               *)
UnknownFieldsKept ==
  phase = "sent" =>
    \A p \in DOMAIN request.tree :
      OrderedAt(p) = {} => candidate.tree[p].more = request.tree[p].more

=============================================================================
