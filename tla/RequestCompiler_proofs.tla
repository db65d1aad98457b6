----------------------- MODULE RequestCompiler_proofs -----------------------
(***************************************************************************)
(* What is sent is what was received with its edits, edited in the history *)
(* the edits were ordered in, and reported as it is sent: proofs about     *)
(* RequestCompiler for any requests and any number of surgeries.           *)
(***************************************************************************)
EXTENDS RequestCompiler, SequenceTheorems, TLAPS

(***************************************************************************)
(* Sequences.                                                              *)
(***************************************************************************)
IsSequence(s) == s \in Seq(ToSet(s))

(* Nothing but the end of a sequence is new when something is appended.    *)
LEMMA Appended ==
  ASSUME NEW s, IsSequence(s), NEW e
  PROVE  /\ IsSequence(Append(s, e))
         /\ Len(s) \in Nat
         /\ DOMAIN s = 1 .. Len(s)
         /\ Len(Append(s, e)) = Len(s) + 1
         /\ DOMAIN Append(s, e) = 1 .. Len(s) + 1
         /\ \A i \in 1 .. Len(s) : Append(s, e)[i] = s[i]
         /\ Append(s, e)[Len(s) + 1] = e
<1> DEFINE T == ToSet(s) \cup {e}
<1> DEFINE t == Append(s, e)
<1>1. s \in Seq(T)
  BY DEF IsSequence
<1> HIDE DEF T
<1>2. e \in T
  BY DEF T
<1>3. /\ t \in Seq(T) /\ Len(s) \in Nat /\ DOMAIN s = 1 .. Len(s)
      /\ Len(t) = Len(s) + 1 /\ DOMAIN t = 1 .. Len(s) + 1
      /\ \A i \in 1 .. Len(s) : t[i] = s[i]
      /\ t[Len(s) + 1] = e
  BY <1>1, <1>2
<1>4. t \in Seq(ToSet(t))
  BY <1>3 DEF ToSet
<1> QED
  BY <1>3, <1>4 DEF IsSequence

(* Nothing is new when something is removed. *)
LEMMA Removed ==
  ASSUME NEW s, IsSequence(s), NEW i \in DOMAIN s
  PROVE  /\ IsSequence(RemoveAt(s, i))
         /\ Len(s) \in Nat \ {0}
         /\ Len(RemoveAt(s, i)) = Len(s) - 1
         /\ \A j \in DOMAIN RemoveAt(s, i) : \E k \in DOMAIN s : RemoveAt(s, i)[j] = s[k]
<1> DEFINE T == ToSet(s)
<1> DEFINE t == RemoveAt(s, i)
<1>1. s \in Seq(T)
  BY DEF IsSequence
<1>2. \A x \in T : \E k \in DOMAIN s : x = s[k]
  BY DEF ToSet
<1> HIDE DEF T
<1>3. Len(s) \in Nat /\ DOMAIN s = 1 .. Len(s) /\ i \in 1 .. Len(s)
  BY <1>1
<1>4. /\ SubSeq(s, 1, i - 1) \in Seq(T) /\ Len(SubSeq(s, 1, i - 1)) = i - 1
      /\ SubSeq(s, i + 1, Len(s)) \in Seq(T) /\ Len(SubSeq(s, i + 1, Len(s))) = Len(s) - i
  BY <1>1, <1>3
<1>5. t \in Seq(T) /\ Len(t) = Len(s) - 1
  <2> DEFINE front == SubSeq(s, 1, i - 1)
  <2> DEFINE back == SubSeq(s, i + 1, Len(s))
  <2>1. t = front \o back
    BY DEF RemoveAt
  <2>2. front \in Seq(T) /\ back \in Seq(T) /\ Len(front) = i - 1 /\ Len(back) = Len(s) - i
    BY <1>4
  <2> HIDE DEF front, back, t
  <2>3. front \o back \in Seq(T) /\ Len(front \o back) = Len(front) + Len(back)
    BY <2>2, ConcatProperties
  <2> QED
    BY <1>3, <2>1, <2>2, <2>3
<1>6. DOMAIN t = 1 .. Len(t) /\ \A j \in DOMAIN t : t[j] \in T
  BY <1>5
<1>7. t \in Seq(ToSet(t))
  BY <1>5, <1>6 DEF ToSet
<1> QED
  BY <1>2, <1>3, <1>5, <1>6, <1>7 DEF IsSequence

(***************************************************************************)
(* Identity.                                                               *)
(***************************************************************************)
(* Equal identifiers have equal histories: the places up to an occurrence, *)
(* what stands there, and the protected messages above it.                 *)
LEMMA IdentityIsHistory ==
  ASSUME NEW provider, NEW a, NEW b, NEW at,
         Identity(provider, a, at) = Identity(provider, b, at)
  PROVE  LET Before(tree) == {q \in Occurrences(provider, tree) : UpTo(q, at)}
             Above(tree) == {m \in Envelopes(provider, tree) : m[1] < at[1]}
         IN  /\ Before(a) = Before(b)
             /\ \A q \in Before(b) : Kind(a, q) = Kind(b, q) /\ Value(a[q]) = Value(b[q])
             /\ Above(a) = Above(b)
             /\ \A m \in Above(b) : Whole(a, m) = Whole(b, m)
<1> DEFINE Before(tree) == {q \in Occurrences(provider, tree) : UpTo(q, at)}
<1> DEFINE Above(tree) == {m \in Envelopes(provider, tree) : m[1] < at[1]}
<1> DEFINE Held(tree) == {<<q, Kind(tree, q), Value(tree[q])>> : q \in Before(tree)}
<1> DEFINE Wholes(tree) == {<<m, Whole(tree, m)>> : m \in Above(tree)}
<1>0. Held(a) = Held(b) /\ Wholes(a) = Wholes(b)
  <2>1. \A tree : Identity(provider, tree, at) =
                    [content |-> Held(tree), wholes |-> Wholes(tree)]
    BY DEF Identity
  <2> HIDE DEF Held, Wholes
  <2>2. [content |-> Held(a), wholes |-> Wholes(a)] =
        [content |-> Held(b), wholes |-> Wholes(b)]
    BY <2>1
  <2>3. /\ [content |-> Held(a), wholes |-> Wholes(a)].content =
             [content |-> Held(b), wholes |-> Wholes(b)].content
        /\ [content |-> Held(a), wholes |-> Wholes(a)].wholes =
             [content |-> Held(b), wholes |-> Wholes(b)].wholes
    BY <2>2
  <2> QED
    BY <2>3
<1> HIDE DEF Before, Above
<1>1. \A q \in Before(a) : q \in Before(b) /\ Kind(a, q) = Kind(b, q) /\ Value(a[q]) = Value(b[q])
  <2> SUFFICES ASSUME NEW q \in Before(a)
               PROVE  q \in Before(b) /\ Kind(a, q) = Kind(b, q) /\ Value(a[q]) = Value(b[q])
    OBVIOUS
  <2>1. <<q, Kind(a, q), Value(a[q])>> \in Held(b)
    BY <1>0
  <2>2. PICK r \in Before(b) : <<q, Kind(a, q), Value(a[q])>> = <<r, Kind(b, r), Value(b[r])>>
    BY <2>1
  <2> QED
    BY <2>2
<1>2. \A q \in Before(b) : q \in Before(a)
  <2> SUFFICES ASSUME NEW q \in Before(b) PROVE q \in Before(a)
    OBVIOUS
  <2>1. <<q, Kind(b, q), Value(b[q])>> \in Held(a)
    BY <1>0
  <2>2. PICK r \in Before(a) : <<q, Kind(b, q), Value(b[q])>> = <<r, Kind(a, r), Value(a[r])>>
    BY <2>1
  <2> QED
    BY <2>2
<1>3. \A m \in Above(a) : m \in Above(b) /\ Whole(a, m) = Whole(b, m)
  <2> SUFFICES ASSUME NEW m \in Above(a) PROVE m \in Above(b) /\ Whole(a, m) = Whole(b, m)
    OBVIOUS
  <2>1. <<m, Whole(a, m)>> \in Wholes(b)
    BY <1>0
  <2>2. PICK r \in Above(b) : <<m, Whole(a, m)>> = <<r, Whole(b, r)>>
    BY <2>1
  <2> QED
    BY <2>2
<1>4. \A m \in Above(b) : m \in Above(a)
  <2> SUFFICES ASSUME NEW m \in Above(b) PROVE m \in Above(a)
    OBVIOUS
  <2>1. <<m, Whole(b, m)>> \in Wholes(a)
    BY <1>0
  <2>2. PICK r \in Above(a) : <<m, Whole(b, m)>> = <<r, Whole(a, r)>>
    BY <2>1
  <2> QED
    BY <2>2
<1> QED
  BY <1>1, <1>2, <1>3, <1>4 DEF Before, Above

(* An identifier holds the occurrence itself. *)
LEMMA IdentityHoldsItself ==
  ASSUME NEW provider, NEW tree, NEW at \in Places, at \in Occurrences(provider, tree)
  PROVE  <<at, Kind(tree, at), Value(tree[at])>> \in Identity(provider, tree, at).content
<1>1. UpTo(at, at)
  BY DEF UpTo, Places
<1> QED
  BY <1>1 DEF Identity

LEMMA IdentityTells ==
  ASSUME NEW provider, NEW tree, NEW at, NEW kind, NEW value,
         <<at, kind, value>> \in Identity(provider, tree, at).content
  PROVE  /\ at \in Occurrences(provider, tree)
         /\ Kind(tree, at) = kind
         /\ Value(tree[at]) = value
<1>1. PICK q \in Occurrences(provider, tree) :
        <<at, kind, value>> = <<q, Kind(tree, q), Value(tree[q])>>
  BY DEF Identity
<1> QED
  BY <1>1

(***************************************************************************)
(* Trees.                                                                  *)
(***************************************************************************)
LEMMA OccurrencesAreThere ==
  ASSUME NEW provider \in Providers, NEW tree
  PROVE  Occurrences(provider, tree) \subseteq DOMAIN tree
BY DEF Occurrences, Providers, AnthropicOccurrences, ChatOccurrences, ResponsesOccurrences,
       Anthropic, Chat, Responses

LEMMA ProviderOfRequest ==
  ASSUME NEW r \in Requests
  PROVE  Provider(r) \in Providers /\ r # None /\ Provider(r) # Provider(None)
<1>1. r.path \in Providers
  BY RequestAssumption DEF Paths
<1>2. None.path = "none"
  BY DEF None
<1> QED
  BY <1>1, <1>2 DEF Provider, Providers, Anthropic, Chat, Responses

(* What the adapter makes of a node: itself, a text made anew, or the      *)
(* empty string taken for no content.                                      *)
AsParsed(provider, before, after) ==
  \/ after = before
  \/ /\ provider = Responses
     /\ before.type \in TextTypes /\ after.type \in TextTypes
     /\ after.text = before.text
  \/ /\ provider = Responses
     /\ before.type = "message" /\ before.form = "string" /\ before.text = Plain(Blank)
     /\ after = [before EXCEPT !.form = "array"]

LEMMA RewrittenAsParsed ==
  ASSUME NEW r \in Requests, NEW provider \in Providers
  PROVE  LET tree == Rewritten(provider, r.tree)
         IN  /\ tree \in [DOMAIN r.tree -> Nodes]
             /\ \A p \in DOMAIN r.tree : AsParsed(provider, r.tree[p], tree[p])
<1> DEFINE tree == r.tree
<1> DEFINE made == Rewritten(provider, tree)
<1>1. \A p \in DOMAIN tree : tree[p] \in Nodes
  BY RequestAssumption
<1> HIDE DEF tree
<1>2. CASE provider # Responses
  <2>1. \A p \in DOMAIN tree : Written(Parsed(tree[p]), tree[p]) = tree[p]
    <3> SUFFICES ASSUME NEW p \in DOMAIN tree
                 PROVE  Written(Parsed(tree[p]), tree[p]) = tree[p]
      OBVIOUS
    <3>1. tree[p] \in Nodes
      BY <1>1
    <3> QED
      BY <3>1 DEF Written, Parsed, Nodes
  <2>2. made = [p \in DOMAIN tree |-> Written(Parsed(tree[p]), tree[p])]
    BY <1>2 DEF Rewritten, AnthropicRewritten, ChatRewritten, Providers, Anthropic, Chat, Responses
  <2>3. made \in [DOMAIN tree -> Nodes] /\ \A p \in DOMAIN tree : made[p] = tree[p]
    BY <1>1, <2>1, <2>2
  <2> QED
    BY <2>3 DEF AsParsed, tree
<1>3. CASE provider = Responses
  <2>1. made = ResponsesRewritten(tree)
    BY <1>3 DEF Rewritten, Anthropic, Chat, Responses
  <2>2. \A p \in DOMAIN tree :
          ResponsesRewritten(tree)[p] \in Nodes /\
          AsParsed(provider, tree[p], ResponsesRewritten(tree)[p])
    <3> SUFFICES ASSUME NEW p \in DOMAIN tree
                 PROVE  ResponsesRewritten(tree)[p] \in Nodes /\
                        AsParsed(provider, tree[p], ResponsesRewritten(tree)[p])
      OBVIOUS
    <3>1. tree[p] \in Nodes
      BY <1>1
    <3> DEFINE n == tree[p]
    <3> DEFINE role == RoleAt(tree, p)
    <3> DEFINE after == ResponsesRewritten(tree)[p]
    <3>2. after =
            IF role \notin {"user", "assistant"} THEN n
            ELSE IF n.type \in TextTypes
            THEN TextBlock(IF role = "user" THEN "input_text" ELSE "output_text", n.text, FALSE)
            ELSE IF n.type = "message" /\ n.form = "string" /\ n.text = Plain(Blank)
            THEN [n EXCEPT !.form = "array"]
            ELSE n
      BY DEF ResponsesRewritten
    <3> HIDE DEF after, role
    <3>3. CASE after = n
      BY <3>1, <3>3 DEF AsParsed, after
    <3>4. CASE n.type \in TextTypes /\ after \in {TextBlock(type, n.text, FALSE) : type \in TextTypes}
      <4>1. PICK type \in TextTypes : after = TextBlock(type, n.text, FALSE)
        BY <3>4
      <4>2. after \in Nodes
        BY <3>1, <4>1 DEF TextBlock, Nodes, NodeTypes, Roles
      <4>3. after.type = type /\ after.text = n.text
        BY <4>1 DEF TextBlock
      <4> QED
        BY <1>3, <3>4, <4>2, <4>3 DEF AsParsed, after
    <3>5. CASE /\ n.type = "message" /\ n.form = "string" /\ n.text = Plain(Blank)
               /\ after = [n EXCEPT !.form = "array"]
      <4>1. after \in Nodes
        BY <3>1, <3>5 DEF Nodes
      <4> QED
        BY <1>3, <3>5, <4>1 DEF AsParsed, after
    <3> QED
      BY <3>2, <3>3, <3>4, <3>5 DEF TextTypes
  <2>3. DOMAIN ResponsesRewritten(tree) = DOMAIN tree
    BY DEF ResponsesRewritten
  <2>4. ResponsesRewritten(tree) = [p \in DOMAIN tree |-> ResponsesRewritten(tree)[p]]
    BY DEF ResponsesRewritten
  <2> QED
    BY <2>1, <2>2, <2>3, <2>4 DEF tree
<1> QED
  BY <1>2, <1>3

(* A node but for its text, or a text of the Responses dialect made anew.  *)
Like(before, after, text) ==
  \/ after = [before EXCEPT !.text = text]
  \/ /\ Provider(request) = Responses
     /\ before.type \in TextTypes /\ after.type \in TextTypes
     /\ after.text = text

(* What a surgery makes of a node. *)
Carried(before, after, word) ==
  /\ IsText(after)
  /\ after.text = Plain(word)
  /\ IF IsMedia(before)
     THEN after.type \in TextTypes /\ (Provider(request) # Chat => after.cache = before.cache)
     ELSE IsText(before) /\ Like(before, after, Plain(word))

(* Only texts, images and documents can be edited. *)
LEMMA MutableIsEditable ==
  ASSUME NEW provider \in Providers, NEW tree, NEW p, Mutable(provider, tree, p)
  PROVE  IsText(tree[p]) \/ IsMedia(tree[p])
BY DEF Mutable, AnthropicMutable, ChatMutable, ResponsesMutable,
       Providers, Anthropic, Chat, Responses

LEMMA EditedCarries ==
  ASSUME request \in Requests,
         NEW p \in DOMAIN request.tree, NEW word \in Words,
         Mutable(Provider(request), request.tree, p),
         candidate.tree[p] \in Nodes,
         AsParsed(Provider(request), request.tree[p], candidate.tree[p])
  PROVE  LET edited == Edited(Provider(request), candidate.tree, p, Plain(word))
         IN  edited \in Nodes /\ Carried(request.tree[p], edited, word)
<1> DEFINE provider == Provider(request)
<1> DEFINE before == request.tree[p]
<1> DEFINE parsed == candidate.tree[p]
<1> DEFINE edited == Edited(provider, candidate.tree, p, Plain(word))
<1>1. before \in Nodes /\ parsed \in Nodes /\ provider \in Providers
  BY RequestAssumption, ProviderOfRequest
<1>2. IsText(before) \/ IsMedia(before)
  BY <1>1, MutableIsEditable
<1>3. Plain(word) \in Texts
  BY DEF Plain, Texts
<1>4. IsMedia(parsed) <=> IsMedia(before)
  BY <1>1 DEF AsParsed, IsMedia, TextTypes, MediaTypes, Nodes
<1>5. CASE IsMedia(before)
  <2>1. edited = MarkerBlock(provider, candidate.tree, p, Plain(word))
    BY <1>4, <1>5 DEF Edited
  <2>2. parsed = before
    BY <1>1, <1>5 DEF AsParsed, IsMedia, TextTypes, MediaTypes, Nodes
  <2>3. PICK type \in TextTypes, cache \in BOOLEAN :
          /\ edited = TextBlock(type, Plain(word), cache)
          /\ provider # Chat => cache = parsed.cache
    <3>1. CASE provider = Anthropic
      BY <1>1, <2>1, <3>1 DEF MarkerBlock, TextTypes, Nodes, Anthropic, Chat, Responses
    <3>2. CASE provider = Chat
      BY <1>1, <2>1, <3>2 DEF MarkerBlock, TextTypes, Nodes, Anthropic, Chat, Responses
    <3>3. CASE provider = Responses
      BY <1>1, <2>1, <3>3
      DEF MarkerBlock, ResponsesTextType, TextTypes, Nodes, Anthropic, Chat, Responses
    <3> QED
      BY <1>1, <3>1, <3>2, <3>3 DEF Providers
  <2> HIDE DEF edited
  <2>4. edited \in Nodes
    BY <1>3, <2>3 DEF TextBlock, Nodes, NodeTypes, Roles
  <2>5. edited.type = type /\ edited.text = Plain(word) /\ edited.cache = cache
    BY <2>3 DEF TextBlock
  <2> QED
    BY <1>5, <2>2, <2>3, <2>4, <2>5 DEF Carried, IsText, edited
<1>6. CASE ~IsMedia(before)
  <2> DEFINE form == IF parsed.type \in TextTypes THEN parsed.form ELSE "string"
  <2>1. edited = [parsed EXCEPT !.text = Plain(word), !.form = form]
    BY <1>4, <1>6 DEF Edited
  <2>2. form \in {"none", "string", "array"}
    BY <1>1 DEF Nodes
  <2> HIDE DEF edited, form
  <2>3. edited \in Nodes
    BY <1>1, <1>3, <2>1, <2>2 DEF Nodes
  <2>4. /\ edited.type = parsed.type /\ edited.text = Plain(word) /\ edited.form = form
        /\ IsText(edited)
    BY <1>1, <2>1 DEF Nodes, IsText, form
  <2>5. Like(before, edited, Plain(word))
    <3>1. CASE parsed = before
      <4>1. form = before.form
        BY <1>1, <1>2, <1>6, <3>1 DEF IsText, form
      <4>2. edited = [before EXCEPT !.text = Plain(word)]
        BY <1>1, <2>1, <3>1, <4>1 DEF Nodes
      <4> QED
        BY <4>2 DEF Like
    <3>2. CASE provider = Responses /\ before.type \in TextTypes /\ parsed.type \in TextTypes
      BY <2>4, <3>2 DEF Like
    <3>3. CASE /\ before.type = "message" /\ before.form = "string"
               /\ parsed = [before EXCEPT !.form = "array"]
      <4>1. form = before.form
        BY <1>1, <3>3 DEF TextTypes, Nodes, form
      <4>2. edited = [before EXCEPT !.text = Plain(word)]
        BY <1>1, <2>1, <3>3, <4>1 DEF Nodes
      <4> QED
        BY <4>2 DEF Like
    <3> QED
      BY <3>1, <3>2, <3>3 DEF AsParsed
  <2> QED
    BY <1>2, <1>6, <2>3, <2>4, <2>5 DEF Carried, edited
<1> QED
  BY <1>5, <1>6

(***************************************************************************)
(* The invariant.                                                          *)
(***************************************************************************)
(* An order holds the identifier of what the user saw. *)
Ordered(order) ==
  /\ order.at \in Occurrences(Provider(catalog), order.seen)
  /\ order.at \in DOMAIN order.seen
  /\ order.identity = Identity(Provider(catalog), order.seen, order.at)
  /\ order.action.text \in Words

OrdersKnown ==
  /\ catalog \in Requests \cup {None}
  /\ IsSequence(orders)
  /\ Len(orders) \in 0 .. MaxOrders
  /\ orders # <<>> => catalog # None
  /\ \A i \in DOMAIN orders : Ordered(orders[i])

(* The anchor is a text of the user, and its identifier holds it. *)
AnchorKnown ==
  /\ placement = [status |-> placement.status, anchor |-> placement.anchor,
                  moved |-> placement.moved, decision |-> placement.decision]
  /\ placement.status \in {"off", "awaiting", "anchored", "stopped"}
  /\ placement.decision \in {"pending", "inject", "preserve"}
  /\ placement.status = "anchored" =>
       <<placement.anchor.at, "user-text", placement.anchor.source>>
         \in placement.anchor.identity.content

Typed ==
  /\ branch = [last |-> branch.last, observed |-> branch.observed]
  /\ branch.observed = {} => branch.last = <<>>
  /\ request \in Requests \cup {None}
  /\ candidate.tree \in [DOMAIN candidate.tree -> Nodes]
  /\ DOMAIN applied \subseteq DOMAIN candidate.tree
  /\ IsSequence(results)
  /\ \A i \in DOMAIN results : results[i].of \in {"user", "bootstrap"}
  /\ phase \in {"resting", "editing", "checking", "sent", "refused"}
  /\ requests \in 0 .. MaxRequests

(* The request in work is the one in the catalog. *)
AtHand ==
  phase \in {"editing", "checking", "sent"} =>
    /\ request \in Requests
    /\ catalog = request
    /\ candidate \in [params : {Normalized(request)}, tree : [DOMAIN request.tree -> Nodes]]

IsResult(r) == r = Result(r.of, r.at, r.outcome, r.output, r.shared)

(* The result of surgery i before the bootstrap text is placed. *)
UserResult(i) ==
  /\ IsResult(results[i])
  /\ results[i].of = "user"
  /\ results[i].at = orders[i].at
  /\ ~results[i].shared
  /\ results[i].outcome = "applied" =>
       /\ Exact(orders[i], request)
       /\ orders[i].at \in DOMAIN applied
       /\ results[i].output = applied[orders[i].at]
       /\ Carried(request.tree[orders[i].at], candidate.tree[orders[i].at],
                  orders[i].action.text)
       /\ \A j \in DOMAIN results \ {i} :
            results[j].at = orders[i].at => results[j].outcome # "applied"

(* Where a surgery was carried out, it is noted what was put there. *)
AppliedAt(p) ==
  /\ applied[p] = ValueAt(request.tree[p], candidate.tree[p])
  /\ \E i \in DOMAIN results : results[i].at = p /\ results[i].outcome = "applied"

Editing ==
  phase = "editing" =>
    /\ Len(results) \in 0 .. Len(orders)
    /\ \A i \in DOMAIN results : UserResult(i)
    /\ \A p \in DOMAIN applied : AppliedAt(p)
    /\ \A p \in DOMAIN request.tree \ DOMAIN applied :
         AsParsed(Provider(request), request.tree[p], candidate.tree[p])

(* The empty string of the Responses dialect, which the check refuses.     *)
Emptied(p) ==
  /\ p \notin DOMAIN applied
  /\ Provider(request) = Responses
  /\ request.tree[p].type = "message" /\ request.tree[p].form = "string"
  /\ candidate.tree[p] = [request.tree[p] EXCEPT !.form = "array"]

OrdersExact ==
  \A i \in DOMAIN orders : results[i].outcome = "applied" => Exact(orders[i], request)

Reported ==
  LET bootstrap == IF placement.status \in {"anchored", "stopped"} THEN 1 ELSE 0
  IN  /\ Len(results) = Len(orders) + bootstrap
      /\ \A i \in DOMAIN orders : results[i].of = "user" /\ results[i].at = orders[i].at
      /\ \A i \in DOMAIN results : TrueResult(i)

Finished ==
  phase \in {"checking", "sent"} =>
    /\ OrdersExact
    /\ Reported
    /\ \A p \in DOMAIN request.tree : ExactAt(p) \/ (phase = "checking" /\ Emptied(p))

IInv == OrdersKnown /\ AnchorKnown /\ Typed /\ AtHand /\ Editing /\ Finished

LEMMA InitEstablishes == Init => IInv
<1> SUFFICES ASSUME Init PROVE IInv
  OBVIOUS
<1>1. IsSequence(<<>>) /\ DOMAIN (<<>>) = {} /\ Len(<<>>) = 0
  BY DEF IsSequence, ToSet
<1>2. orders = <<>> /\ results = <<>> /\ applied = <<>> /\ candidate.tree = <<>>
  BY DEF Init, NoCandidate
<1>3. OrdersKnown
  BY <1>1, <1>2, RequestAssumption DEF Init, OrdersKnown
<1>4. AnchorKnown
  BY DEF Init, AnchorKnown
<1>5. Typed
  BY <1>1, <1>2, RequestAssumption DEF Init, Typed
<1> QED
  BY <1>3, <1>4, <1>5 DEF Init, IInv, AtHand, Editing, Finished

(***************************************************************************)
(* Every step.                                                             *)
(***************************************************************************)
(* Orders stay known as long as the requests are of one dialect. *)
LEMMA StillOrdered ==
  ASSUME NEW order, Ordered(order), Provider(catalog)' = Provider(catalog)
  PROVE  Ordered(order)'
BY DEF Ordered

(* Between requests nothing is in work. *)
LEMMA ForgetSteps ==
  ASSUME IInv, Forget, UNCHANGED <<branch, catalog, placement, requests>>,
         IsSequence(orders'), Len(orders') \in 0 .. MaxOrders, catalog # None,
         \A i \in DOMAIN orders' : Ordered(orders'[i])
  PROVE  IInv'
<1>1. IsSequence(<<>>) /\ DOMAIN (<<>>) = {}
  BY DEF IsSequence, ToSet
<1>2. results' = <<>> /\ applied' = <<>> /\ candidate'.tree = <<>> /\ request' = None
  BY DEF Forget, NoCandidate
<1>3. OrdersKnown'
  BY DEF IInv, OrdersKnown, Ordered
<1>4. AnchorKnown'
  BY DEF IInv, AnchorKnown
<1>5. Typed'
  BY <1>1, <1>2 DEF IInv, Typed, Forget
<1> QED
  BY <1>3, <1>4, <1>5 DEF IInv, Forget, AtHand, Editing, Finished

LEMMA OrderSteps ==
  ASSUME IInv, NEW p, NEW action, OrderSurgery(p, action)
  PROVE  IInv'
<1> DEFINE order == [at |-> p, identity |-> Identity(Provider(catalog), catalog.tree, p),
                     source |-> Value(catalog.tree[p]),
                     action |-> action, seen |-> catalog.tree]
<1>1. orders' = Append(orders, order)
  BY DEF OrderSurgery
<1>2. IsSequence(orders) /\ Len(orders) \in Nat /\ Len(orders) < MaxOrders /\ MaxOrders \in Nat
  BY RequestAssumption DEF IInv, OrdersKnown, OrderSurgery
<1>3. catalog # None /\ catalog \in Requests
  BY DEF IInv, OrdersKnown, OrderSurgery
<1>4. p \in Occurrences(Provider(catalog), catalog.tree) /\ p \in DOMAIN catalog.tree
  BY <1>3, ProviderOfRequest, OccurrencesAreThere DEF OrderSurgery
<1>5. action.text \in Words
  BY WordAssumption, RequestAssumption DEF OrderSurgery, Actions
<1>6. Ordered(order)
  BY <1>4, <1>5 DEF Ordered
<1> HIDE DEF order
<1>7. /\ IsSequence(orders') /\ Len(orders') = Len(orders) + 1
      /\ \A i \in DOMAIN orders' : Ordered(orders'[i])
  BY <1>1, <1>2, <1>6, Appended DEF IInv, OrdersKnown
<1> QED
  BY <1>2, <1>3, <1>7, ForgetSteps DEF OrderSurgery

LEMMA RestoreSteps ==
  ASSUME IInv, NEW i, Restore(i)
  PROVE  IInv'
<1>1. IsSequence(orders) /\ i \in DOMAIN orders /\ orders' = RemoveAt(orders, i)
  BY DEF IInv, OrdersKnown, Restore
<1>2. /\ IsSequence(orders') /\ Len(orders') = Len(orders) - 1 /\ Len(orders) \in Nat \ {0}
      /\ \A j \in DOMAIN orders' : \E k \in DOMAIN orders : orders'[j] = orders[k]
  BY <1>1, Removed
<1>3. \A j \in DOMAIN orders' : Ordered(orders'[j])
  BY <1>2 DEF IInv, OrdersKnown
<1>4. catalog # None
  <2>1. orders # <<>>
    BY <1>1
  <2> QED
    BY <2>1 DEF IInv, OrdersKnown
<1>5. Len(orders') \in 0 .. MaxOrders
  BY <1>2, RequestAssumption DEF IInv, OrdersKnown
<1> QED
  BY <1>2, <1>3, <1>4, <1>5, ForgetSteps DEF Restore

LEMMA RejectSteps ==
  ASSUME IInv, NEW r \in Requests, Reject(r)
  PROVE  IInv'
<1>1. IsSequence(<<>>) /\ DOMAIN (<<>>) = {}
  BY DEF IsSequence, ToSet
<1>2. /\ results' = <<>> /\ applied' = <<>> /\ candidate'.tree = <<>> /\ request' = r
      /\ requests' \in 0 .. MaxRequests /\ phase' = "refused"
  BY RequestAssumption DEF Reject, Arrives, NoCandidate, IInv, Typed
<1>3. OrdersKnown'
  BY DEF IInv, OrdersKnown, Ordered, Reject
<1>4. AnchorKnown'
  BY DEF IInv, AnchorKnown, Reject
<1>5. Typed'
  BY <1>1, <1>2 DEF IInv, Typed, Reject
<1> QED
  BY <1>2, <1>3, <1>4, <1>5 DEF IInv, AtHand, Editing, Finished

(* The placement's new anchor is a text of the user in the request.        *)
LEMMA ReconciledAnchor ==
  ASSUME AnchorKnown, NEW r \in Requests, placement' = Reconciled(placement, r)
  PROVE  AnchorKnown'
<1> DEFINE provider == Provider(r)
<1> DEFINE first == CHOOSE p \in FirstUsers(r) : TRUE
<1>1. \A p \in FirstUsers(r) :
        /\ p \in Occurrences(provider, r.tree)
        /\ Kind(r.tree, p) = "user-text"
        /\ p \in Places
  BY ProviderOfRequest, OccurrencesAreThere, RequestAssumption DEF FirstUsers
<1>2. \A p \in FirstUsers(r) :
        <<AnchorAt(r, p).at, "user-text", AnchorAt(r, p).source>>
          \in AnchorAt(r, p).identity.content
  BY <1>1, IdentityHoldsItself DEF AnchorAt
<1>3. CASE placement.status = "awaiting" /\ FirstUsers(r) # {}
  <2>1. first \in FirstUsers(r)
    BY <1>3
  <2>2. /\ placement'.status = "anchored" /\ placement'.anchor = AnchorAt(r, first)
        /\ placement'.decision \in {"inject", "preserve"}
        /\ placement' = [status |-> placement'.status, anchor |-> placement'.anchor,
                         moved |-> placement'.moved, decision |-> placement'.decision]
    BY <1>3 DEF Reconciled, InitialDecision
  <2> QED
    BY <1>2, <2>1, <2>2 DEF AnchorKnown
<1>4. CASE /\ placement.status = "anchored" /\ ~Found(placement.anchor, r)
           /\ ~placement.moved /\ FirstUsers(r) # {}
  <2>1. first \in FirstUsers(r)
    BY <1>4
  <2>2. placement' = [placement EXCEPT !.anchor = AnchorAt(r, first), !.moved = TRUE]
    BY <1>4 DEF Reconciled
  <2>3. /\ placement'.status = placement.status /\ placement'.anchor = AnchorAt(r, first)
        /\ placement'.decision = placement.decision
        /\ placement' = [status |-> placement'.status, anchor |-> placement'.anchor,
                         moved |-> placement'.moved, decision |-> placement'.decision]
    BY <2>2 DEF AnchorKnown
  <2> QED
    BY <1>2, <2>1, <2>3 DEF AnchorKnown
<1>5. CASE /\ placement.status = "anchored" /\ ~Found(placement.anchor, r)
           /\ ~(~placement.moved /\ FirstUsers(r) # {})
  <2>1. placement' = [placement EXCEPT !.anchor = NoAnchor, !.status = "stopped"]
    BY <1>5 DEF Reconciled
  <2> QED
    BY <2>1 DEF AnchorKnown
<1>6. CASE /\ ~(placement.status = "awaiting" /\ FirstUsers(r) # {})
           /\ ~(placement.status = "anchored" /\ ~Found(placement.anchor, r))
  BY <1>6 DEF Reconciled, AnchorKnown
<1> QED
  BY <1>3, <1>4, <1>5, <1>6

LEMMA ReceiveSteps ==
  ASSUME IInv, NEW r \in Requests, Receive(r)
  PROVE  IInv'
<1>1. IsSequence(<<>>) /\ DOMAIN (<<>>) = {} /\ Len(<<>>) = 0
  BY DEF IsSequence, ToSet
<1>2. /\ results' = <<>> /\ applied' = <<>> /\ request' = r /\ catalog' = r
      /\ candidate' = [params |-> Normalized(r), tree |-> Rewritten(Provider(r), r.tree)]
      /\ requests' \in 0 .. MaxRequests /\ phase' = "editing" /\ orders' = orders
  BY RequestAssumption DEF Receive, Arrives, IInv, Typed
<1>3. /\ candidate'.tree \in [DOMAIN r.tree -> Nodes]
      /\ \A p \in DOMAIN r.tree : AsParsed(Provider(r), r.tree[p], candidate'.tree[p])
  BY <1>2, ProviderOfRequest, RewrittenAsParsed
<1>4. orders # <<>> => Provider(catalog') = Provider(catalog)
  BY <1>2 DEF IInv, OrdersKnown, Receive, Arrives
<1>5. \A i \in DOMAIN orders : Ordered(orders[i])'
  <2>1. \A i \in DOMAIN orders : Ordered(orders[i]) /\ orders # <<>>
    BY DEF IInv, OrdersKnown
  <2> QED
    BY <1>2, <1>4, <2>1 DEF Ordered
<1>6. OrdersKnown'
  BY <1>2, <1>5, ProviderOfRequest DEF IInv, OrdersKnown
<1>7. AnchorKnown'
  BY ReconciledAnchor DEF IInv, Receive
<1>8. Typed'
  BY <1>1, <1>2, <1>3 DEF IInv, Typed, Receive, Observe
<1>9. AtHand'
  BY <1>2, <1>3 DEF AtHand
<1>10. Editing'
  <2>1. Len(orders) \in Nat
    BY DEF IInv, OrdersKnown
  <2> QED
    BY <1>1, <1>2, <1>3, <2>1 DEF Editing
<1> QED
  BY <1>2, <1>6, <1>7, <1>8, <1>9, <1>10 DEF IInv, Finished

(***************************************************************************)
(* A surgery.                                                              *)
(***************************************************************************)
(* What Carried says of a node stays as long as the node does. *)
LEMMA CarriedStays ==
  ASSUME NEW before, NEW after, NEW word, Carried(before, after, word), request' = request
  PROVE  Carried(before, after, word)'
BY DEF Carried, Like

LEMMA OperateApplies ==
  ASSUME IInv, Operate, Outcome(Turn) = "applied"
  PROVE  IInv'
<1>a. PICK n, order : n = Len(results) /\ order = Turn
  OBVIOUS
<1>b. PICK p, word : p = order.at /\ word = order.action.text
  OBVIOUS
<1>c. PICK edited : edited = Edited(Provider(request), candidate.tree, p, Plain(word))
  OBVIOUS
<1>d. PICK output : output = ValueAt(request.tree[p], edited)
  OBVIOUS
<1>e. PICK result : result = Result("user", p, "applied", output, FALSE)
  OBVIOUS
<1>f. /\ IsResult(result) /\ result.of = "user" /\ result.at = p /\ result.outcome = "applied"
      /\ result.output = output /\ ~result.shared
  BY <1>e DEF Result, IsResult
<1>1. /\ phase = "editing" /\ phase' = "editing" /\ n < Len(orders)
      /\ candidate' = [candidate EXCEPT !.tree[p] = edited]
      /\ applied' = Put(applied, p, output)
      /\ results' = Append(results, result)
      /\ UNCHANGED <<branch, catalog, orders, placement, request, requests>>
  BY <1>a, <1>b, <1>c, <1>d, <1>e DEF Operate
<1>2. /\ request \in Requests /\ catalog = request
      /\ candidate \in [params : {Normalized(request)}, tree : [DOMAIN request.tree -> Nodes]]
      /\ n \in 0 .. Len(orders) /\ Len(orders) \in Nat /\ IsSequence(results)
      /\ IsSequence(orders) /\ DOMAIN orders = 1 .. Len(orders)
  BY <1>1, <1>a DEF IInv, AtHand, Editing, OrdersKnown, Typed, IsSequence
<1>3. n + 1 \in DOMAIN orders /\ order = orders[n + 1] /\ word \in Words
  BY <1>1, <1>2, <1>a, <1>b DEF Turn, IInv, OrdersKnown, Ordered
<1>4. /\ Exact(order, request) /\ p \notin DOMAIN applied
      /\ Mutable(Provider(request), request.tree, p)
  BY <1>a, <1>b DEF Outcome
<1>5. p \in DOMAIN request.tree
  BY <1>2, <1>4, <1>b, ProviderOfRequest, OccurrencesAreThere DEF Exact
<1>6. edited \in Nodes /\ Carried(request.tree[p], edited, word)
  <2>1. candidate.tree[p] \in Nodes
    BY <1>2, <1>5
  <2>2. AsParsed(Provider(request), request.tree[p], candidate.tree[p])
    BY <1>1, <1>4, <1>5 DEF IInv, Editing
  <2> QED
    BY <1>2, <1>3, <1>4, <1>5, <1>c, <2>1, <2>2, EditedCarries
<1>7. /\ candidate' \in [params : {Normalized(request)}, tree : [DOMAIN request.tree -> Nodes]]
      /\ candidate'.tree[p] = edited
      /\ \A q \in DOMAIN request.tree \ {p} : candidate'.tree[q] = candidate.tree[q]
      /\ DOMAIN candidate'.tree = DOMAIN request.tree /\ DOMAIN candidate.tree = DOMAIN request.tree
  BY <1>1, <1>2, <1>5, <1>6
<1>8. /\ DOMAIN applied' = DOMAIN applied \cup {p} /\ applied'[p] = output
      /\ \A q \in DOMAIN applied : applied'[q] = applied[q]
  BY <1>1, <1>4 DEF Put
<1>9. /\ IsSequence(results') /\ n \in Nat /\ DOMAIN results = 1 .. n /\ Len(results') = n + 1
      /\ DOMAIN results' = 1 .. n + 1 /\ results'[n + 1] = result
      /\ \A i \in 1 .. n : results'[i] = results[i]
  <2>1. /\ IsSequence(Append(results, result)) /\ Len(results) \in Nat
        /\ DOMAIN results = 1 .. Len(results)
        /\ Len(Append(results, result)) = Len(results) + 1
        /\ DOMAIN Append(results, result) = 1 .. Len(results) + 1
        /\ \A i \in 1 .. Len(results) : Append(results, result)[i] = results[i]
        /\ Append(results, result)[Len(results) + 1] = result
    BY <1>2, Appended
  <2> QED
    BY <1>1, <1>a, <2>1
<1>10. OrdersKnown' /\ AnchorKnown'
  BY <1>1 DEF IInv, OrdersKnown, Ordered, AnchorKnown
<1>11. Typed'
  <2>1. \A i \in DOMAIN results' : results'[i].of \in {"user", "bootstrap"}
    BY <1>9, <1>f DEF IInv, Typed
  <2>2. DOMAIN applied' \subseteq DOMAIN candidate'.tree
    BY <1>5, <1>7, <1>8 DEF IInv, Typed
  <2> QED
    BY <1>1, <1>7, <1>9, <2>1, <2>2 DEF IInv, Typed
<1>12. AtHand'
  BY <1>1, <1>2, <1>7 DEF AtHand, Normalized, Cursor, Provider
<1>13. Editing'
  <2>1. \A i \in 1 .. n : UserResult(i) /\ i \in DOMAIN results
    BY <1>1, <1>9 DEF IInv, Editing
  <2>2. \A i \in 1 .. n : results[i].outcome = "applied" =>
          results[i].at # p /\ orders[i].at \in DOMAIN request.tree \ {p}
    BY <1>4, <1>7, <2>1 DEF UserResult, IInv, Typed
  <2>3. \A i \in 1 .. n : UserResult(i)'
    <3> SUFFICES ASSUME NEW i \in 1 .. n PROVE UserResult(i)'
      OBVIOUS
    <3>1. UserResult(i) /\ results'[i] = results[i] /\ orders' = orders /\ request' = request
      BY <1>1, <1>9, <2>1
    <3>2. CASE results[i].outcome # "applied"
      BY <3>1, <3>2 DEF UserResult, IsResult, Result
    <3>3. CASE results[i].outcome = "applied"
      <4>1. /\ orders[i].at \in DOMAIN applied /\ orders[i].at # p
            /\ candidate'.tree[orders[i].at] = candidate.tree[orders[i].at]
            /\ applied'[orders[i].at] = applied[orders[i].at]
        BY <1>7, <1>8, <2>1, <2>2, <3>3 DEF UserResult
      <4>2. Carried(request.tree[orders[i].at], candidate.tree[orders[i].at],
                    orders[i].action.text)'
        BY <3>1, <3>3, <4>1 DEF UserResult, Carried, Like
      <4>3. \A j \in DOMAIN results' \ {i} :
              results'[j].at = orders[i].at => results'[j].outcome # "applied"
        BY <1>9, <1>f, <3>1, <3>3, <4>1 DEF UserResult
      <4>4. Exact(orders[i], request)'
        BY <3>1, <3>3 DEF UserResult, Exact
      <4> QED
        BY <1>8, <3>1, <3>3, <4>1, <4>2, <4>3, <4>4 DEF UserResult, IsResult, Result
    <3> QED
      BY <3>2, <3>3
  <2>4. UserResult(n + 1)'
    <3>1. /\ results'[n + 1] = result /\ orders'[n + 1] = order
          /\ candidate'.tree[p] = edited /\ applied'[p] = output
      BY <1>1, <1>3, <1>7, <1>8, <1>9
    <3>2. \A j \in DOMAIN results' \ {n + 1} :
            results'[j].at = p => results'[j].outcome # "applied"
      BY <1>9, <2>2
    <3>3. Exact(order, request)' /\ Carried(request.tree[p], edited, word)'
      BY <1>1, <1>4, <1>6 DEF Exact, Carried, Like
    <3>4. Exact(orders[n + 1], request)'
      BY <3>1, <3>3 DEF Exact
    <3>5. Carried(request.tree[orders[n + 1].at], candidate.tree[orders[n + 1].at],
                  orders[n + 1].action.text)'
      BY <1>1, <1>b, <3>1, <3>3 DEF Carried, Like
    <3>6. orders'[n + 1].at = p
      BY <1>b, <3>1
    <3> QED
      BY <1>8, <1>f, <3>1, <3>2, <3>4, <3>5, <3>6 DEF UserResult, IsResult
  <2>5. \A q \in DOMAIN applied' : AppliedAt(q)'
    <3> SUFFICES ASSUME NEW q \in DOMAIN applied' PROVE AppliedAt(q)'
      OBVIOUS
    <3>1. CASE q = p
      <4>1. n + 1 \in DOMAIN results' /\ results'[n + 1].at = p /\ results'[n + 1].outcome = "applied"
        BY <1>9, <1>f
      <4>2. applied'[p] = ValueAt(request.tree[p], candidate.tree[p])'
        BY <1>1, <1>7, <1>8, <1>d DEF ValueAt
      <4> QED
        BY <3>1, <4>1, <4>2 DEF AppliedAt
    <3>2. CASE q # p
      <4>1. q \in DOMAIN applied /\ AppliedAt(q) /\ q \in DOMAIN request.tree
        BY <1>1, <1>7, <1>8, <3>2 DEF IInv, Editing, Typed
      <4>2. \E i \in DOMAIN results' : results'[i].at = q /\ results'[i].outcome = "applied"
        BY <1>9, <4>1 DEF AppliedAt
      <4>3. applied'[q] = ValueAt(request.tree[q], candidate.tree[q])'
        BY <1>1, <1>7, <1>8, <3>2, <4>1 DEF AppliedAt, ValueAt
      <4> QED
        BY <4>2, <4>3 DEF AppliedAt
    <3> QED
      BY <3>1, <3>2
  <2>6. \A q \in DOMAIN request.tree \ DOMAIN applied' :
          AsParsed(Provider(request), request.tree[q], candidate'.tree[q])
    BY <1>1, <1>7, <1>8 DEF IInv, Editing
  <2> QED
    BY <1>1, <1>2, <1>9, <2>3, <2>4, <2>5, <2>6 DEF Editing
<1> QED
  BY <1>1, <1>10, <1>11, <1>12, <1>13 DEF IInv, Finished

LEMMA OperateRefuses ==
  ASSUME IInv, Operate, Outcome(Turn) # "applied"
  PROVE  IInv'
<1>a. PICK n, order : n = Len(results) /\ order = Turn
  OBVIOUS
<1>b. PICK outcome : outcome = Outcome(Turn)
  OBVIOUS
<1>c. PICK result : result = Result("user", order.at, outcome, NoOutput, FALSE)
  OBVIOUS
<1>1. /\ phase = "editing" /\ phase' = "editing" /\ n < Len(orders)
      /\ results' = Append(results, result)
      /\ UNCHANGED <<branch, catalog, orders, placement, request, requests, candidate, applied>>
  BY <1>a, <1>b, <1>c DEF Operate
<1>2. /\ IsResult(result) /\ result.of = "user" /\ result.at = order.at
      /\ result.outcome # "applied" /\ ~result.shared
  BY <1>b, <1>c DEF Result, IsResult
<1>3. /\ n \in 0 .. Len(orders) /\ Len(orders) \in Nat /\ DOMAIN orders = 1 .. Len(orders)
  BY <1>1, <1>a DEF IInv, Editing, OrdersKnown, IsSequence
<1>4. order = orders[n + 1]
  BY <1>a DEF Turn
<1>5. /\ IsSequence(results') /\ n \in Nat /\ DOMAIN results = 1 .. n /\ Len(results') = n + 1
      /\ DOMAIN results' = 1 .. n + 1 /\ results'[n + 1] = result
      /\ \A i \in 1 .. n : results'[i] = results[i]
  <2>1. IsSequence(results)
    BY DEF IInv, Typed
  <2>2. /\ IsSequence(Append(results, result)) /\ Len(results) \in Nat
        /\ DOMAIN results = 1 .. Len(results)
        /\ Len(Append(results, result)) = Len(results) + 1
        /\ DOMAIN Append(results, result) = 1 .. Len(results) + 1
        /\ \A i \in 1 .. Len(results) : Append(results, result)[i] = results[i]
        /\ Append(results, result)[Len(results) + 1] = result
    BY <2>1, Appended
  <2> QED
    BY <1>1, <1>a, <2>2
<1>6. OrdersKnown' /\ AnchorKnown' /\ AtHand'
  BY <1>1 DEF IInv, OrdersKnown, Ordered, AnchorKnown, AtHand
<1>7. Typed'
  BY <1>1, <1>2, <1>5 DEF IInv, Typed
<1>8. \A i \in 1 .. n : UserResult(i)'
  <2> SUFFICES ASSUME NEW i \in 1 .. n PROVE UserResult(i)'
    OBVIOUS
  <2>1. UserResult(i) /\ results'[i] = results[i]
    BY <1>1, <1>5 DEF IInv, Editing
  <2>2. results[i].outcome = "applied" =>
          /\ Exact(orders[i], request)'
          /\ Carried(request.tree[orders[i].at], candidate.tree[orders[i].at],
                     orders[i].action.text)'
    BY <1>1, <2>1 DEF UserResult, Exact, Carried, Like
  <2>3. results[i].outcome = "applied" =>
          \A j \in DOMAIN results' \ {i} :
            results'[j].at = orders[i].at => results'[j].outcome # "applied"
    BY <1>2, <1>5, <2>1 DEF UserResult
  <2> QED
    BY <1>1, <2>1, <2>2, <2>3 DEF UserResult, IsResult
<1>9. UserResult(n + 1)'
  BY <1>1, <1>2, <1>4, <1>5 DEF UserResult, IsResult
<1>10. \A p \in DOMAIN applied' : AppliedAt(p)'
  <2> SUFFICES ASSUME NEW p \in DOMAIN applied PROVE AppliedAt(p)'
    BY <1>1
  <2>1. AppliedAt(p)
    BY <1>1 DEF IInv, Editing
  <2>2. \E i \in DOMAIN results' : results'[i].at = p /\ results'[i].outcome = "applied"
    BY <1>5, <2>1 DEF AppliedAt
  <2> QED
    BY <1>1, <2>1, <2>2 DEF AppliedAt
<1>11. Editing'
  BY <1>1, <1>3, <1>5, <1>8, <1>9, <1>10 DEF IInv, Editing
<1> QED
  BY <1>1, <1>6, <1>7, <1>11 DEF IInv, Finished

LEMMA OperateSteps ==
  ASSUME IInv, Operate
  PROVE  IInv'
BY OperateApplies, OperateRefuses

(***************************************************************************)
(* The bootstrap text.                                                     *)
(***************************************************************************)
(* An anchor that is found exactly is a text of the user, as it was.       *)
LEMMA AnchorIsSource ==
  ASSUME AnchorKnown, placement.status = "anchored", NEW r \in Requests,
         Exact(placement.anchor, r)
  PROVE  /\ Value(r.tree[placement.anchor.at]) = placement.anchor.source
         /\ Kind(r.tree, placement.anchor.at) = "user-text"
BY IdentityTells DEF AnchorKnown, Exact

LEMMA UserTextIsText ==
  ASSUME NEW tree, NEW p, Kind(tree, p) = "user-text"
  PROVE  IsText(tree[p]) /\ ~IsMedia(tree[p])
BY DEF Kind, IsMedia, MediaTypes

(* A text is not its own echo. *)
LEMMA NoEchoOfItself ==
  ASSUME NEW anchor, NEW tree, tree[anchor.at] \in Nodes,
         Value(tree[anchor.at]) = anchor.source
  PROVE  ~Echoes(anchor, tree)
<1> SUFFICES ASSUME Echoes(anchor, tree) PROVE FALSE
  OBVIOUS
<1> DEFINE text == tree[anchor.at].text
<1>1. IsText(tree[anchor.at]) /\ [text |-> [text EXCEPT !.prefixes = @ - 1]] = [text |-> text]
  BY DEF Echoes, Value, ValueAt
<1>2. [text EXCEPT !.prefixes = @ - 1] = text
  <2>1. [text |-> [text EXCEPT !.prefixes = @ - 1]].text = [text |-> text].text
    BY <1>1
  <2> QED
    BY <2>1
<1>3. text \in [prefixes : Nat, word : Words \cup {"none"}]
  BY DEF Nodes, Texts
<1>4. \A x \in [prefixes : Nat, word : Words \cup {"none"}] :
        x.prefixes \in Nat /\ [x EXCEPT !.prefixes = @ - 1].prefixes = x.prefixes - 1
  OBVIOUS
<1>5. text.prefixes \in Nat /\ text.prefixes = text.prefixes - 1
  BY <1>2, <1>3, <1>4
<1> QED
  BY <1>5

(***************************************************************************)
(* The text at a place before the bootstrap text is placed.                *)
(***************************************************************************)
TextOrdered(p) ==
  IF OrderedAt(p) = {} THEN request.tree[p].text
  ELSE Plain(orders[CHOOSE i \in OrderedAt(p) : TRUE].action.text)

Stands(p, after, text) ==
  IF IsMedia(request.tree[p]) /\ OrderedAt(p) # {}
  THEN /\ after.type \in TextTypes
       /\ after.text = text
       /\ Provider(request) # Chat => after.cache = request.tree[p].cache
  ELSE Like(request.tree[p], after, text)

Operated == phase = "editing" /\ Len(results) = Len(orders)

LEMMA AllOperated ==
  ASSUME IInv, Operated
  PROVE  /\ request \in Requests /\ Provider(request) \in Providers
         /\ candidate \in [params : {Normalized(request)}, tree : [DOMAIN request.tree -> Nodes]]
         /\ \A p \in DOMAIN request.tree : request.tree[p] \in Nodes /\ candidate.tree[p] \in Nodes
         /\ Len(orders) \in Nat /\ DOMAIN orders = 1 .. Len(orders)
         /\ IsSequence(results) /\ DOMAIN results = 1 .. Len(orders)
         /\ \A i \in DOMAIN orders : UserResult(i)
         /\ \A p \in DOMAIN applied : AppliedAt(p) /\ p \in DOMAIN request.tree
BY RequestAssumption, ProviderOfRequest
DEF IInv, Operated, AtHand, Editing, Typed, OrdersKnown, IsSequence

LEMMA OrderedIsApplied ==
  ASSUME IInv, Operated, NEW p \in DOMAIN request.tree
  PROVE  /\ p \in DOMAIN applied <=> OrderedAt(p) # {}
         /\ \A i \in OrderedAt(p) :
              Carried(request.tree[p], candidate.tree[p], orders[i].action.text)
<1>1. \A i \in DOMAIN orders : UserResult(i)
  BY AllOperated
<1>2. \A i \in OrderedAt(p) :
        /\ p \in DOMAIN applied
        /\ Carried(request.tree[p], candidate.tree[p], orders[i].action.text)
  BY <1>1 DEF OrderedAt, UserResult
<1>3. ASSUME p \in DOMAIN applied PROVE OrderedAt(p) # {}
  <2>1. PICK i \in DOMAIN results : results[i].at = p /\ results[i].outcome = "applied"
    BY <1>3, AllOperated DEF AppliedAt
  <2>2. i \in DOMAIN orders /\ orders[i].at = p
    BY <1>1, <2>1, AllOperated DEF UserResult
  <2> QED
    BY <2>1, <2>2 DEF OrderedAt
<1> QED
  BY <1>2, <1>3

LEMMA PlaceStands ==
  ASSUME IInv, Operated, NEW p \in DOMAIN request.tree
  PROVE  \/ /\ Stands(p, candidate.tree[p], TextOrdered(p))
            /\ candidate.tree[p].text = TextOrdered(p)
         \/ Emptied(p)
<1>1. request.tree[p] \in Nodes /\ candidate.tree[p] \in Nodes
  BY AllOperated
<1>2. CASE OrderedAt(p) # {}
  <2>1. PICK i \in OrderedAt(p) : TextOrdered(p) = Plain(orders[i].action.text)
    BY <1>2 DEF TextOrdered
  <2>2. Carried(request.tree[p], candidate.tree[p], orders[i].action.text)
    BY OrderedIsApplied
  <2> QED
    BY <1>2, <2>1, <2>2 DEF Carried, Stands
<1>3. CASE OrderedAt(p) = {}
  <2>1. p \notin DOMAIN applied /\ TextOrdered(p) = request.tree[p].text
    BY <1>3, OrderedIsApplied DEF TextOrdered
  <2>2. AsParsed(Provider(request), request.tree[p], candidate.tree[p])
    BY <2>1 DEF IInv, Editing, Operated
  <2>3. CASE candidate.tree[p] = request.tree[p]
    <3>1. candidate.tree[p] = [request.tree[p] EXCEPT !.text = request.tree[p].text]
      BY <1>1, <2>3 DEF Nodes
    <3> QED
      BY <1>3, <2>1, <2>3, <3>1 DEF Stands, Like
  <2>4. CASE /\ Provider(request) = Responses
             /\ request.tree[p].type \in TextTypes /\ candidate.tree[p].type \in TextTypes
             /\ candidate.tree[p].text = request.tree[p].text
    BY <1>3, <2>1, <2>4 DEF Stands, Like
  <2>5. CASE /\ Provider(request) = Responses
             /\ request.tree[p].type = "message" /\ request.tree[p].form = "string"
             /\ candidate.tree[p] = [request.tree[p] EXCEPT !.form = "array"]
    BY <2>1, <2>5 DEF Emptied
  <2> QED
    BY <2>2, <2>3, <2>4, <2>5 DEF AsParsed
<1> QED
  BY <1>2, <1>3

LEMMA EmptiedIsNoText ==
  ASSUME NEW p, request.tree[p] \in Nodes, Emptied(p)
  PROVE  ~IsText(candidate.tree[p])
<1>1. candidate.tree[p].type = "message" /\ candidate.tree[p].form = "array"
  BY DEF Emptied, Nodes
<1> QED
  BY <1>1 DEF IsText, TextTypes

(* A place is exact when its text is the one that is due. *)
LEMMA StandsIsExact ==
  ASSUME NEW p, request.tree[p] \in Nodes,
         Stands(p, candidate.tree[p], TextDue(p))
  PROVE  ExactAt(p)
<1> DEFINE before == request.tree[p]
<1> DEFINE after == candidate.tree[p]
<1> DEFINE text == TextDue(p)
<1>1. CASE IsMedia(before) /\ OrderedAt(p) # {}
  BY <1>1 DEF Stands, ExactAt
<1>2. CASE ~(IsMedia(before) /\ OrderedAt(p) # {})
  <2>1. Like(before, after, text)
    BY <1>2 DEF Stands
  <2>2. Kept(after) = Kept([before EXCEPT !.text = text])
    <3> HIDE DEF after, text
    <3>1. [before EXCEPT !.text = text].type = before.type /\ [before EXCEPT !.text = text].text = text
      BY DEF Nodes
    <3> QED
      BY <2>1, <3>1 DEF Like, Kept
  <2> QED
    BY <1>2, <2>2 DEF ExactAt
<1> QED
  BY <1>1, <1>2

(* The places that the bootstrap text leaves alone. *)
LEMMA PlaceStays ==
  ASSUME IInv, Operated, NEW p \in DOMAIN request.tree,
         UNCHANGED <<orders, placement, request>>,
         \A i \in DOMAIN orders : results'[i].outcome = results[i].outcome,
         candidate'.tree[p] = candidate.tree[p],
         p \in DOMAIN applied' <=> p \in DOMAIN applied,
         ~Injected(p)
  PROVE  ExactAt(p)' \/ (Emptied(p)' /\ Emptied(p))
<1>1. OrderedAt(p)' = OrderedAt(p) /\ Injected(p)' = Injected(p)
  BY DEF OrderedAt, Injected, Echoes
<1>2. TextDue(p) = TextOrdered(p) /\ TextDue(p)' = TextOrdered(p)
  BY <1>1 DEF TextDue, TextOrdered
<1>3. request.tree[p] \in Nodes
  BY AllOperated
<1>4. ExactAt(p) => ExactAt(p)'
  BY <1>1, <1>2 DEF ExactAt, Kept
<1>5. Emptied(p) => Emptied(p)'
  BY DEF Emptied
<1> QED
  BY <1>2, <1>3, <1>4, <1>5, PlaceStands, StandsIsExact

LEMMA NodePrefixed ==
  ASSUME NEW n \in Nodes
  PROVE  /\ Prefixed(n) \in Nodes
         /\ Prefixed(n) = [n EXCEPT !.text = [n.text EXCEPT !.prefixes = @ + 1]]
         /\ Prefixed(n).type = n.type /\ Prefixed(n).form = n.form
         /\ Prefixed(n).cache = n.cache
         /\ Prefixed(n).text = [n.text EXCEPT !.prefixes = @ + 1]
<1> DEFINE text == [n.text EXCEPT !.prefixes = @ + 1]
<1>1. n.text \in Texts
  BY DEF Nodes
<1>2. text \in Texts
  BY <1>1 DEF Texts
<1>3. Prefixed(n) = [n EXCEPT !.text = text]
  BY DEF Prefixed, Nodes
<1> HIDE DEF text
<1>4. [n EXCEPT !.text = text] \in Nodes
  BY <1>2 DEF Nodes
<1>5. /\ Prefixed(n).type = n.type /\ Prefixed(n).form = n.form
      /\ Prefixed(n).cache = n.cache /\ Prefixed(n).text = text
  BY <1>3 DEF Nodes
<1> QED
  BY <1>3, <1>4, <1>5 DEF text

(* With the bootstrap text before it, a text stands as it did. *)
LEMMA PrefixedStands ==
  ASSUME NEW p, request.tree[p] \in Nodes, candidate.tree[p] \in Nodes,
         NEW text, candidate.tree[p].text = text, Stands(p, candidate.tree[p], text)
  PROVE  Stands(p, Prefixed(candidate.tree[p]), [text EXCEPT !.prefixes = @ + 1])
<1> DEFINE before == request.tree[p]
<1> DEFINE after == candidate.tree[p]
<1> DEFINE more == [text EXCEPT !.prefixes = @ + 1]
<1>1. /\ Prefixed(after) = [after EXCEPT !.text = more]
      /\ Prefixed(after).type = after.type /\ Prefixed(after).text = more
      /\ Prefixed(after).cache = after.cache
  BY NodePrefixed
<1> HIDE DEF more
<1>2. ASSUME Like(before, after, text) PROVE Like(before, Prefixed(after), more)
  <2>1. CASE after = [before EXCEPT !.text = text]
    <3>1. [after EXCEPT !.text = more] = [before EXCEPT !.text = more]
      BY <2>1 DEF Nodes
    <3> QED
      BY <1>1, <3>1 DEF Like
  <2>2. CASE /\ Provider(request) = Responses
             /\ before.type \in TextTypes /\ after.type \in TextTypes
    BY <1>1, <2>2 DEF Like
  <2> QED
    BY <1>2, <2>1, <2>2 DEF Like
<1> QED
  BY <1>1, <1>2 DEF Stands, more

(* The occurrence the bootstrap text goes before is a text of the request, *)
(* with the bootstrap text before it already or not.                       *)
LEMMA AtAnchorFacts ==
  ASSUME IInv, Operated, placement.status = "anchored", AtAnchor,
         IsText(candidate.tree[placement.anchor.at])
  PROVE  LET p == placement.anchor.at
         IN  /\ p \in DOMAIN request.tree
             /\ IsText(request.tree[p])
             /\ Echoes(placement.anchor, request.tree) <=>
                  (p \notin DOMAIN applied /\ Echoes(placement.anchor, candidate.tree))
<1> DEFINE p == placement.anchor.at
<1>1. p \in Occurrences(Provider(request), request.tree)
  BY DEF AtAnchor, Exact
<1>2. /\ p \in DOMAIN request.tree /\ p \in DOMAIN candidate.tree
      /\ request.tree[p] \in Nodes /\ candidate.tree[p] \in Nodes /\ request \in Requests
  BY <1>1, AllOperated, OccurrencesAreThere
<1>3. CASE p \in DOMAIN applied
  <2>1. PICK i \in OrderedAt(p) :
          Carried(request.tree[p], candidate.tree[p], orders[i].action.text)
    BY <1>2, <1>3, OrderedIsApplied
  <2>2. candidate.tree[p].text.prefixes = 0
    BY <2>1 DEF Carried, Plain
  <2>3. ~Echoes(placement.anchor, candidate.tree)
    BY <2>2 DEF Echoes
  <2>4. Exact(placement.anchor, request)
    BY <2>3 DEF AtAnchor
  <2>5. /\ Value(request.tree[p]) = placement.anchor.source
        /\ Kind(request.tree, p) = "user-text"
    BY <1>2, <2>4, AnchorIsSource DEF IInv
  <2>6. ~Echoes(placement.anchor, request.tree)
    BY <1>2, <2>5, NoEchoOfItself
  <2> QED
    BY <1>2, <1>3, <2>5, <2>6, UserTextIsText
<1>4. CASE p \notin DOMAIN applied
  <2>1. AsParsed(Provider(request), request.tree[p], candidate.tree[p])
    BY <1>2, <1>4 DEF IInv, Editing, Operated
  <2>2. IsText(request.tree[p])
    BY <1>2, <2>1 DEF AsParsed, IsText
  <2>3. candidate.tree[p].text = request.tree[p].text
    BY <1>2, <2>1 DEF AsParsed, Nodes
  <2>4. Echoes(placement.anchor, request.tree) <=> Echoes(placement.anchor, candidate.tree)
    BY <1>2, <2>2, <2>3 DEF Echoes
  <2> QED
    BY <1>2, <1>4, <2>2, <2>4
<1> QED
  BY <1>3, <1>4

(* A text's value is the same whichever text stood there before. *)
LEMMA TextValue ==
  ASSUME NEW before, NEW after, IsText(before), IsText(after)
  PROVE  Value(after) = ValueAt(before, after)
BY DEF Value, ValueAt

LEMMA SharedIsSequence ==
  ASSUME NEW p, NEW output, IsSequence(results)
  PROVE  /\ IsSequence(Shared(p, output)) /\ Len(Shared(p, output)) = Len(results)
         /\ DOMAIN Shared(p, output) = DOMAIN results /\ Len(results) \in Nat
         /\ DOMAIN results = 1 .. Len(results)
<1> DEFINE s == Shared(p, output)
<1>1. DOMAIN results = 1 .. Len(results) /\ Len(results) \in Nat
  BY DEF IsSequence
<1>2. s = [i \in 1 .. Len(results) |-> s[i]]
  BY <1>1 DEF Shared
<1> HIDE DEF s
<1>3. DOMAIN s = 1 .. Len(results) /\ \A i \in 1 .. Len(results) : s[i] \in ToSet(s)
  BY <1>2 DEF ToSet
<1>4. s \in [1 .. Len(results) -> ToSet(s)]
  BY <1>2, <1>3
<1>5. s \in Seq(ToSet(s))
  BY <1>1, <1>4
<1>6. Len(s) = Len(results)
  BY <1>1, <1>3, <1>5
<1> QED
  BY <1>1, <1>3, <1>5, <1>6 DEF IsSequence, s

(* Where no surgery was carried out, no result is shared. *)
LEMMA SharedOfNone ==
  ASSUME IInv, Operated, NEW p, p \notin DOMAIN applied, NEW output
  PROVE  Shared(p, output) = results
<1>1. \A i \in DOMAIN results : ~(results[i].at = p /\ results[i].outcome = "applied")
  BY AllOperated DEF UserResult
<1>2. results = [i \in DOMAIN results |-> results[i]]
  BY AllOperated DEF IsSequence
<1> QED
  BY <1>1, <1>2 DEF Shared

(* What makes a result true, in the next state. *)
LEMMA TrueNext ==
  ASSUME NEW i,
         results'[i].output =
           ValueAt(request.tree[results[i].at], candidate.tree[results[i].at])',
         results'[i].shared <=>
           \E j \in DOMAIN results' \ {i} :
             results'[j].at = results'[i].at /\ results'[j].outcome = "applied"
  PROVE  TrueResult(i)'
BY DEF TrueResult

(* The result of the bootstrap text joins those of the surgeries. *)
LEMMA ResultJoins ==
  ASSUME IInv, Operated, placement.status = "anchored",
         NEW p \in DOMAIN request.tree, NEW output,
         NEW prior \in BOOLEAN, prior <=> p \in DOMAIN applied,
         output = ValueAt(request.tree[p], candidate'.tree[p]),
         UNCHANGED <<orders, placement, request>>,
         results' = Append(Shared(p, output), Result("bootstrap", p, "applied", output, prior)),
         \A q \in DOMAIN request.tree \ {p} : candidate'.tree[q] = candidate.tree[q]
  PROVE  /\ IsSequence(results') /\ OrdersExact' /\ Reported'
         /\ \A i \in DOMAIN results' : results'[i].of \in {"user", "bootstrap"}
         /\ \A i \in DOMAIN orders : results'[i].outcome = results[i].outcome
<1>a. PICK n : n = Len(orders)
  OBVIOUS
<1>b. PICK last : last = Result("bootstrap", p, "applied", output, prior)
  OBVIOUS
<1>1. /\ last.of = "bootstrap" /\ last.at = p /\ last.outcome = "applied"
      /\ last.output = output /\ last.shared = prior
  BY <1>b DEF Result
<1>2. /\ n \in Nat /\ DOMAIN orders = 1 .. n /\ DOMAIN results = 1 .. n /\ Len(results) = n
      /\ IsSequence(results) /\ \A i \in 1 .. n : UserResult(i)
  BY <1>a, AllOperated DEF Operated
<1>u. \A i \in 1 .. n :
        /\ results[i].of = "user" /\ results[i].at = orders[i].at
        /\ results[i].outcome = "applied" =>
             /\ Exact(orders[i], request)
             /\ orders[i].at \in DOMAIN applied
             /\ results[i].output = applied[orders[i].at]
             /\ \A j \in 1 .. n \ {i} :
                  results[j].at = orders[i].at => results[j].outcome # "applied"
  <2> SUFFICES ASSUME NEW i \in 1 .. n
               PROVE  /\ results[i].of = "user" /\ results[i].at = orders[i].at
                      /\ results[i].outcome = "applied" =>
                           /\ Exact(orders[i], request)
                           /\ orders[i].at \in DOMAIN applied
                           /\ results[i].output = applied[orders[i].at]
                           /\ \A j \in 1 .. n \ {i} :
                                results[j].at = orders[i].at => results[j].outcome # "applied"
    OBVIOUS
  <2>1. UserResult(i)
    BY <1>2
  <2> QED
    BY <1>2, <2>1 DEF UserResult
<1>v. \A q \in DOMAIN applied :
        /\ q \in DOMAIN request.tree /\ applied[q] = ValueAt(request.tree[q], candidate.tree[q])
        /\ \E j \in 1 .. n : results[j].at = q /\ results[j].outcome = "applied"
  BY <1>2, AllOperated DEF AppliedAt
<1>3. /\ IsSequence(results') /\ Len(results') = n + 1 /\ DOMAIN results' = 1 .. n + 1
      /\ results'[n + 1] = last
      /\ \A i \in 1 .. n : results'[i] = Shared(p, output)[i]
  <2>1. /\ IsSequence(Shared(p, output)) /\ Len(Shared(p, output)) = n
    BY <1>2, SharedIsSequence
  <2> DEFINE s == Shared(p, output)
  <2> HIDE DEF s
  <2>2. /\ IsSequence(Append(s, last)) /\ Len(Append(s, last)) = Len(s) + 1
        /\ DOMAIN Append(s, last) = 1 .. Len(s) + 1
        /\ Append(s, last)[Len(s) + 1] = last
        /\ \A i \in 1 .. Len(s) : Append(s, last)[i] = s[i]
    BY <2>1, Appended DEF s
  <2>3. results' = Append(s, last)
    BY <1>b DEF s
  <2> QED
    BY <2>1, <2>2, <2>3 DEF s
<1>4. \A i \in 1 .. n :
        /\ results'[i].of = results[i].of /\ results'[i].at = results[i].at
        /\ results'[i].outcome = results[i].outcome
        /\ IF results[i].at = p /\ results[i].outcome = "applied"
           THEN results'[i].output = output /\ results'[i].shared
           ELSE results'[i] = results[i]
  <2> SUFFICES ASSUME NEW i \in 1 .. n
               PROVE  /\ results'[i].of = results[i].of /\ results'[i].at = results[i].at
                      /\ results'[i].outcome = results[i].outcome
                      /\ IF results[i].at = p /\ results[i].outcome = "applied"
                         THEN results'[i].output = output /\ results'[i].shared
                         ELSE results'[i] = results[i]
    OBVIOUS
  <2>1. IsResult(results[i])
    BY <1>2 DEF UserResult
  <2>2. results'[i] = IF results[i].at = p /\ results[i].outcome = "applied"
                      THEN [results[i] EXCEPT !.output = output, !.shared = TRUE]
                      ELSE results[i]
    BY <1>2, <1>3 DEF Shared
  <2> QED
    BY <2>1, <2>2 DEF IsResult, Result
<1>w. \A i \in 1 .. n :
        results'[i].at = results[i].at /\ results'[i].outcome = results[i].outcome
  BY <1>4
<1>5. OrdersExact'
  <2>1. \A i \in 1 .. n : results'[i].outcome = "applied" => Exact(orders[i], request)
    BY <1>u, <1>w
  <2>2. \A i \in 1 .. n : Exact(orders[i], request) => Exact(orders[i], request)'
    BY DEF Exact
  <2> QED
    BY <1>2, <2>1, <2>2 DEF OrdersExact
<1>6. \A i \in 1 .. n : results[i].outcome = "applied" => TrueResult(i)'
  <2> SUFFICES ASSUME NEW i \in 1 .. n, results[i].outcome = "applied" PROVE TrueResult(i)'
    OBVIOUS
  <2>1. results'[i].at = results[i].at /\ results[i].at = orders[i].at
    BY <1>4, <1>u
  <2>2. CASE results[i].at = p
    <3>1. results'[i].output = output /\ results'[i].shared /\ results'[i].at = p
      BY <1>4, <2>2
    <3>2. n + 1 \in DOMAIN results' \ {i} /\ results'[n + 1].at = results'[i].at
          /\ results'[n + 1].outcome = "applied"
      BY <1>1, <1>2, <1>3, <3>1
    <3>3. results'[i].shared <=>
            \E j \in DOMAIN results' \ {i} :
              results'[j].at = results'[i].at /\ results'[j].outcome = "applied"
      BY <3>1, <3>2, Zenon
    <3>4. results'[i].output =
            ValueAt(request.tree[results[i].at], candidate.tree[results[i].at])'
      BY <3>1 DEF ValueAt
    <3> QED
      BY <3>3, <3>4, TrueNext
  <2>3. CASE results[i].at # p
    <3>1. results'[i] = results[i]
      BY <1>4, <2>3
    <3>2. \A j \in DOMAIN results' \ {i} :
            ~(results'[j].at = results[i].at /\ results'[j].outcome = "applied")
      <4> SUFFICES ASSUME NEW j \in DOMAIN results' \ {i}
                   PROVE  ~(results'[j].at = results[i].at /\ results'[j].outcome = "applied")
        OBVIOUS
      <4>1. CASE j = n + 1
        BY <1>1, <1>3, <2>3, <4>1
      <4>2. CASE j \in 1 .. n
        BY <1>4, <1>u, <2>1, <4>2
      <4> QED
        BY <1>2, <1>3, <4>1, <4>2
    <3>3. ~results'[i].shared
      BY <1>2, <3>1 DEF UserResult
    <3>4. results'[i].shared <=>
            \E j \in DOMAIN results' \ {i} :
              results'[j].at = results'[i].at /\ results'[j].outcome = "applied"
      BY <2>1, <3>2, <3>3, Zenon
    <3>5. /\ orders[i].at \in DOMAIN request.tree \ {p}
          /\ results[i].output = ValueAt(request.tree[orders[i].at], candidate.tree[orders[i].at])
      BY <1>u, <1>v, <2>1, <2>3
    <3>6. results'[i].output =
            ValueAt(request.tree[results[i].at], candidate.tree[results[i].at])'
      <4>1. results'[i].at = orders[i].at /\ results'[i].output = results[i].output
        BY <2>1, <3>1
      <4>2. /\ candidate'.tree[orders[i].at] = candidate.tree[orders[i].at]
            /\ request'.tree[orders[i].at] = request.tree[orders[i].at]
        BY <3>5
      <4>3. ValueAt(request.tree[results[i].at], candidate.tree[results[i].at])' =
            ValueAt(request.tree[orders[i].at], candidate.tree[orders[i].at])
        BY <4>1, <4>2 DEF ValueAt
      <4> QED
        BY <3>5, <4>1, <4>3
    <3> QED
      BY <3>4, <3>6, TrueNext
  <2> QED
    BY <2>2, <2>3
<1>7. TrueResult(n + 1)'
  <2>1. results'[n + 1] = last /\ results'[n + 1].at = p
    BY <1>1, <1>3
  <2>2. p \in DOMAIN applied <=> \E j \in 1 .. n : results[j].at = p /\ results[j].outcome = "applied"
    BY <1>u, <1>v
  <2>3. p \in DOMAIN applied <=>
          \E j \in DOMAIN results' \ {n + 1} :
            results'[j].at = results'[n + 1].at /\ results'[j].outcome = "applied"
    <3>1. DOMAIN results' \ {n + 1} = 1 .. n
      BY <1>2, <1>3
    <3>2. \A j \in 1 .. n :
            (results'[j].at = p /\ results'[j].outcome = "applied") <=>
            (results[j].at = p /\ results[j].outcome = "applied")
      BY <1>w
    <3>3. p \in DOMAIN applied <=>
            \E j \in 1 .. n : results'[j].at = p /\ results'[j].outcome = "applied"
      BY <2>2, <3>2, Zenon
    <3>4. results'[n + 1].at = p
      BY <2>1
    <3> QED
      BY <3>1, <3>3, <3>4, Zenon
  <2>4. results'[n + 1].shared <=> p \in DOMAIN applied
    BY <1>1, <2>1
  <2>5. results'[n + 1].output =
          ValueAt(request.tree[results[n + 1].at], candidate.tree[results[n + 1].at])'
    BY <1>1, <2>1 DEF ValueAt
  <2>6. results'[n + 1].shared <=>
          \E j \in DOMAIN results' \ {n + 1} :
            results'[j].at = results'[n + 1].at /\ results'[j].outcome = "applied"
    BY <2>3, <2>4, Zenon
  <2> QED
    BY <2>5, <2>6, TrueNext
<1>8. Reported'
  <2>1. \A i \in 1 .. n : results'[i].of = "user" /\ results'[i].at = orders[i].at
    BY <1>4, <1>u
  <2>2. DOMAIN results' = 1 .. n \cup {n + 1}
    BY <1>2, <1>3
  <2>3. \A i \in 1 .. n : results[i].outcome # "applied" => TrueResult(i)'
    BY <1>4 DEF TrueResult
  <2>4. \A i \in DOMAIN results' : TrueResult(i)'
    BY <1>6, <1>7, <2>2, <2>3
  <2>5. Len(results') = Len(orders') + 1 /\ DOMAIN orders' = 1 .. n
    BY <1>a, <1>2, <1>3
  <2>6. \A i \in DOMAIN orders' : results'[i].of = "user" /\ results'[i].at = orders'[i].at
    BY <2>1, <2>5
  <2> QED
    BY <2>4, <2>5, <2>6 DEF Reported
<1>9. \A i \in DOMAIN results' : results'[i].of \in {"user", "bootstrap"}
  BY <1>1, <1>2, <1>3, <1>4, <1>u
<1> QED
  BY <1>2, <1>3, <1>4, <1>5, <1>8, <1>9

(* What every branch of Bootstrap leaves as it is. *)
LEMMA BootstrapFrame ==
  ASSUME IInv, Operated, UNCHANGED <<branch, catalog, orders, placement, request, requests>>
  PROVE  OrdersKnown' /\ AnchorKnown'
BY DEF IInv, OrdersKnown, Ordered, AnchorKnown

LEMMA BootstrapNone ==
  ASSUME IInv, Operated, Bootstrap, placement.status \in {"off", "awaiting"}
  PROVE  IInv'
<1>1. /\ phase' = "checking"
      /\ UNCHANGED <<branch, catalog, orders, placement, request, requests,
                     candidate, applied, results>>
  BY DEF Bootstrap
<1>2. OrdersKnown' /\ AnchorKnown' /\ Typed' /\ AtHand'
  BY <1>1, BootstrapFrame DEF IInv, Operated, Typed, AtHand
<1>3. \A i \in DOMAIN orders : UserResult(i)
  BY AllOperated
<1>4. OrdersExact'
  BY <1>1, <1>3 DEF OrdersExact, UserResult, Exact
<1>5. \A i \in DOMAIN results : TrueResult(i)
  <2> SUFFICES ASSUME NEW i \in DOMAIN results, results[i].outcome = "applied"
               PROVE  TrueResult(i)
    BY DEF TrueResult
  <2>1. i \in DOMAIN orders /\ UserResult(i)
    BY <1>3, AllOperated
  <2>2. /\ results[i].at = orders[i].at /\ orders[i].at \in DOMAIN applied
        /\ results[i].output = applied[orders[i].at]
        /\ ~results[i].shared
        /\ \A j \in DOMAIN results \ {i} :
             results[j].at = orders[i].at => results[j].outcome # "applied"
    BY <2>1 DEF UserResult
  <2>3. applied[orders[i].at] =
          ValueAt(request.tree[orders[i].at], candidate.tree[orders[i].at])
    BY <2>2, AllOperated DEF AppliedAt
  <2> QED
    BY <2>2, <2>3 DEF TrueResult
<1>6. Reported'
  <2>1. Len(results) = Len(orders) + 0
    BY AllOperated DEF Operated
  <2>2. Reported
    BY <1>3, <1>5, <2>1, AllOperated DEF Reported, UserResult
  <2>3. \A i \in DOMAIN results : TrueResult(i)'
    BY <1>1, <1>5 DEF TrueResult
  <2> QED
    BY <1>1, <2>2, <2>3 DEF Reported
<1>7. \A p \in DOMAIN request.tree : ~Injected(p)
  BY DEF Injected
<1>8. \A p \in DOMAIN request.tree : ExactAt(p)' \/ Emptied(p)'
  BY <1>1, <1>7, PlaceStays
<1>9. Finished'
  BY <1>1, <1>4, <1>6, <1>8 DEF Finished
<1> QED
  BY <1>1, <1>2, <1>9 DEF IInv, Editing

LEMMA BootstrapStopped ==
  ASSUME IInv, Operated, Bootstrap, placement.status = "stopped"
  PROVE  IInv'
<1>a. PICK n : n = Len(orders)
  OBVIOUS
<1>b. PICK last : last = Result("bootstrap", NoPlace, "protected-residue", NoOutput, FALSE)
  OBVIOUS
<1>1. /\ phase' = "checking" /\ results' = Append(results, last)
      /\ UNCHANGED <<branch, catalog, orders, placement, request, requests, candidate, applied>>
  BY <1>b DEF Bootstrap
<1>2. last.of = "bootstrap" /\ last.outcome # "applied"
  BY <1>b DEF Result
<1>3. /\ n \in Nat /\ DOMAIN orders = 1 .. n /\ DOMAIN results = 1 .. n /\ Len(results) = n
      /\ IsSequence(results) /\ \A i \in 1 .. n : UserResult(i)
  BY <1>a, AllOperated DEF Operated
<1>4. /\ IsSequence(results') /\ Len(results') = n + 1 /\ DOMAIN results' = 1 .. n + 1
      /\ results'[n + 1] = last
      /\ \A i \in 1 .. n : results'[i] = results[i]
  BY <1>1, <1>3, Appended
<1>5. OrdersKnown' /\ AnchorKnown' /\ AtHand'
  BY <1>1, BootstrapFrame DEF IInv, Operated, AtHand
<1>6. Typed'
  BY <1>1, <1>2, <1>3, <1>4 DEF IInv, Typed
<1>7. OrdersExact'
  BY <1>1, <1>3, <1>4 DEF OrdersExact, UserResult, Exact
<1>8. \A i \in 1 .. n : results[i].outcome = "applied" => TrueResult(i)'
  <2> SUFFICES ASSUME NEW i \in 1 .. n, results[i].outcome = "applied" PROVE TrueResult(i)'
    OBVIOUS
  <2>1. UserResult(i) /\ results'[i] = results[i]
    BY <1>3, <1>4
  <2>2. /\ results[i].at = orders[i].at /\ orders[i].at \in DOMAIN applied
        /\ results[i].output = applied[orders[i].at]
        /\ \A j \in DOMAIN results \ {i} :
             results[j].at = orders[i].at => results[j].outcome # "applied"
    BY <2>1 DEF UserResult
  <2>3. ~results'[i].shared
    BY <2>1 DEF UserResult
  <2>4. \A j \in DOMAIN results' \ {i} :
          ~(results'[j].at = results'[i].at /\ results'[j].outcome = "applied")
    <3> SUFFICES ASSUME NEW j \in DOMAIN results' \ {i}
                 PROVE  ~(results'[j].at = results'[i].at /\ results'[j].outcome = "applied")
      OBVIOUS
    <3>1. CASE j = n + 1
      BY <1>2, <1>4, <3>1
    <3>2. CASE j \in 1 .. n
      BY <1>3, <1>4, <2>1, <2>2, <3>2
    <3> QED
      BY <1>3, <1>4, <3>1, <3>2
  <2>5. applied[orders[i].at] =
          ValueAt(request.tree[orders[i].at], candidate.tree[orders[i].at])
    BY <2>2, AllOperated DEF AppliedAt
  <2>6. results'[i].output =
          ValueAt(request.tree[results[i].at], candidate.tree[results[i].at])'
    BY <1>1, <2>1, <2>2, <2>5 DEF ValueAt
  <2>7. results'[i].shared <=>
          \E j \in DOMAIN results' \ {i} :
            results'[j].at = results'[i].at /\ results'[j].outcome = "applied"
    BY <2>3, <2>4, Zenon
  <2> QED
    BY <2>6, <2>7, TrueNext
<1>9. Reported'
  <2>1. \A i \in 1 .. n : results'[i].of = "user" /\ results'[i].at = orders[i].at
    BY <1>3, <1>4 DEF UserResult
  <2>2. DOMAIN results' = 1 .. n \cup {n + 1}
    BY <1>3, <1>4
  <2>3. \A i \in DOMAIN results' : results'[i].outcome # "applied" => TrueResult(i)'
    BY DEF TrueResult
  <2>4. \A i \in DOMAIN results' : TrueResult(i)'
    BY <1>2, <1>4, <1>8, <2>2, <2>3
  <2>5. Len(results') = Len(orders') + 1 /\ DOMAIN orders' = 1 .. n
    BY <1>a, <1>1, <1>3, <1>4
  <2>6. \A i \in DOMAIN orders' : results'[i].of = "user" /\ results'[i].at = orders'[i].at
    BY <1>1, <2>1, <2>5
  <2>7. placement'.status = "stopped"
    BY <1>1
  <2> QED
    BY <2>4, <2>5, <2>6, <2>7 DEF Reported
<1>10. \A p \in DOMAIN request.tree : ~Injected(p)
  BY DEF Injected
<1>11. \A p \in DOMAIN request.tree : ExactAt(p)' \/ Emptied(p)'
  <2>1. \A i \in DOMAIN orders : results'[i].outcome = results[i].outcome
    BY <1>3, <1>4
  <2> QED
    BY <1>1, <1>10, <2>1, PlaceStays
<1>12. Finished'
  BY <1>1, <1>7, <1>9, <1>11 DEF Finished
<1> QED
  BY <1>1, <1>5, <1>6, <1>12 DEF IInv, Editing

(* The bootstrap text has its result, and the place of the anchor its text.*)
LEMMA AnchorFinishes ==
  ASSUME IInv, Operated, placement.status = "anchored", phase' = "checking",
         NEW p \in DOMAIN request.tree, p = placement.anchor.at,
         NEW output, output = ValueAt(request.tree[p], candidate'.tree[p]),
         NEW prior \in BOOLEAN, prior <=> p \in DOMAIN applied,
         UNCHANGED <<branch, catalog, orders, placement, request, requests>>,
         results' = Append(Shared(p, output), Result("bootstrap", p, "applied", output, prior)),
         candidate' \in [params : {Normalized(request)}, tree : [DOMAIN request.tree -> Nodes]],
         \A q \in DOMAIN request.tree \ {p} : candidate'.tree[q] = candidate.tree[q],
         DOMAIN applied' \in {DOMAIN applied, DOMAIN applied \cup {p}},
         ExactAt(p)'
  PROVE  IInv'
<1>1. /\ IsSequence(results') /\ OrdersExact' /\ Reported'
      /\ \A i \in DOMAIN results' : results'[i].of \in {"user", "bootstrap"}
      /\ \A i \in DOMAIN orders : results'[i].outcome = results[i].outcome
  BY ResultJoins
<1>2. OrdersKnown' /\ AnchorKnown'
  BY BootstrapFrame
<1>3. DOMAIN candidate'.tree = DOMAIN request.tree /\ candidate'.tree \in [DOMAIN request.tree -> Nodes]
  OBVIOUS
<1>4. DOMAIN applied' \subseteq DOMAIN request.tree
  BY AllOperated
<1>5. Typed'
  BY <1>1, <1>3, <1>4 DEF IInv, Typed
<1>6. AtHand'
  BY DEF IInv, Operated, AtHand, Normalized, Cursor, Provider
<1>7. \A q \in DOMAIN request.tree \ {p} : ExactAt(q)' \/ Emptied(q)'
  <2> SUFFICES ASSUME NEW q \in DOMAIN request.tree \ {p} PROVE ExactAt(q)' \/ Emptied(q)'
    OBVIOUS
  <2>1. ~Injected(q)
    BY DEF Injected
  <2>2. q \in DOMAIN applied' <=> q \in DOMAIN applied
    OBVIOUS
  <2> QED
    BY <1>1, <2>1, <2>2, PlaceStays
<1>8. \A q \in DOMAIN request.tree : ExactAt(q)' \/ (phase' = "checking" /\ Emptied(q)')
  <2> SUFFICES ASSUME NEW q \in DOMAIN request.tree, q # p
               PROVE  ExactAt(q)' \/ Emptied(q)'
    OBVIOUS
  <2>1. q \in DOMAIN request.tree \ {p}
    OBVIOUS
  <2> QED
    BY <1>7, <2>1
<1>9. (\A q \in DOMAIN request.tree : ExactAt(q) \/ (phase = "checking" /\ Emptied(q)))'
  BY <1>8
<1>10. Finished'
  BY <1>1, <1>9 DEF Finished
<1> QED
  BY <1>2, <1>5, <1>6, <1>10 DEF IInv, Editing

(* A place whose text is due as it stands. *)
LEMMA AnchorExact ==
  ASSUME IInv, Operated, NEW p \in DOMAIN request.tree, NEW text,
         UNCHANGED <<orders, placement, request>>,
         \A i \in DOMAIN orders : results'[i].outcome = results[i].outcome,
         Stands(p, candidate'.tree[p], text),
         text = TextDue(p)
  PROVE  ExactAt(p)'
<1>1. OrderedAt(p)' = OrderedAt(p) /\ Injected(p)' = Injected(p)
  BY DEF OrderedAt, Injected, Echoes
<1>2. TextDue(p)' = text
  BY <1>1 DEF TextDue
<1>3. request'.tree[p] \in Nodes
  BY AllOperated
<1>4. Stands(p, candidate.tree[p], TextDue(p))'
  BY <1>1, <1>2 DEF Stands, Like
<1>5. ASSUME request'.tree[p] \in Nodes, Stands(p, candidate.tree[p], TextDue(p))'
      PROVE  ExactAt(p)'
  <2> DEFINE before == request'.tree[p]
  <2> DEFINE after == candidate'.tree[p]
  <2>1. CASE (IsMedia(request.tree[p]) /\ OrderedAt(p) # {})'
    BY <1>5, <2>1 DEF Stands, ExactAt
  <2>2. CASE ~(IsMedia(request.tree[p]) /\ OrderedAt(p) # {})'
    <3>1. Like(request.tree[p], candidate.tree[p], TextDue(p))'
      BY <1>5, <2>2 DEF Stands
    <3>2. [before EXCEPT !.text = text].type = before.type /\ [before EXCEPT !.text = text].text = text
      BY <1>5 DEF Nodes
    <3>3. (Kept(candidate.tree[p]) = Kept([request.tree[p] EXCEPT !.text = TextDue(p)]))'
      BY <1>2, <3>1, <3>2 DEF Like, Kept
    <3> QED
      BY <2>2, <3>3 DEF ExactAt
  <2> QED
    BY <2>1, <2>2
<1> QED
  BY <1>3, <1>4, <1>5

LEMMA BootstrapAnchored ==
  ASSUME IInv, Operated, Bootstrap, placement.status = "anchored",
         AtAnchor, IsText(candidate.tree[placement.anchor.at])
  PROVE  IInv'
<1>a. PICK p, n : p = placement.anchor.at /\ n = candidate.tree[p]
  OBVIOUS
<1>b. PICK prior \in BOOLEAN : prior <=> p \in DOMAIN applied
  OBVIOUS
<1>1. /\ phase' = "checking"
      /\ UNCHANGED <<branch, catalog, orders, placement, request, requests>>
      /\ IF placement.decision = "inject" THEN Inject(p) ELSE Preserve(p)
  BY <1>a DEF Bootstrap
<1>2. /\ p \in DOMAIN request.tree /\ IsText(request.tree[p]) /\ IsText(n)
      /\ Echoes(placement.anchor, request.tree) <=>
           (~prior /\ Echoes(placement.anchor, candidate.tree))
  BY <1>a, <1>b, AtAnchorFacts
<1>3. /\ n \in Nodes /\ request.tree[p] \in Nodes
      /\ candidate \in [params : {Normalized(request)}, tree : [DOMAIN request.tree -> Nodes]]
  BY <1>2, <1>a, AllOperated
<1>4. Stands(p, n, TextOrdered(p)) /\ n.text = TextOrdered(p)
  BY <1>2, <1>3, <1>a, PlaceStands, EmptiedIsNoText
<1>5. \A output : ~prior => Shared(p, output) = results
  BY <1>b, SharedOfNone
<1>6. Injected(p) <=> placement.decision = "inject" /\
                      ~(~prior /\ Echoes(placement.anchor, candidate.tree))
  BY <1>a, <1>2 DEF Injected
<1>7. CASE ~Injected(p)
  <2>1. PICK output : output = Value(n)
    OBVIOUS
  <2>2. candidate' = candidate /\ applied' = applied
    BY <1>1, <1>6, <1>7, <1>b DEF Inject, Preserve
  <2>3. results' = Append(Shared(p, output), Result("bootstrap", p, "applied", output, prior))
    <3>1. CASE placement.decision = "inject"
      <4>1. ~prior /\ p \notin DOMAIN applied /\ Echoes(placement.anchor, candidate.tree)
        BY <1>6, <1>7, <1>b, <3>1
      <4>2. results' = Append(results, Result("bootstrap", p, "applied", output, FALSE))
        BY <1>1, <1>a, <2>1, <3>1, <4>1 DEF Inject
      <4>3. prior = FALSE
        BY <4>1
      <4> QED
        BY <1>5, <4>1, <4>2, <4>3
    <3>2. CASE placement.decision # "inject"
      <4>1. results' = Append(IF p \in DOMAIN applied THEN Shared(p, output) ELSE results,
                              Result("bootstrap", p, "applied", output, p \in DOMAIN applied))
        BY <1>1, <1>a, <2>1, <3>2 DEF Preserve
      <4>2. CASE prior
        <5>1. prior = TRUE /\ (p \in DOMAIN applied) = TRUE
          BY <1>b, <4>2
        <5> QED
          BY <4>1, <5>1
      <4>3. CASE ~prior
        <5>1. prior = FALSE /\ (p \in DOMAIN applied) = FALSE
          BY <1>b, <4>3
        <5> QED
          BY <1>5, <4>1, <5>1
      <4> QED
        BY <4>2, <4>3
    <3> QED
      BY <3>1, <3>2
  <2>4. output = ValueAt(request.tree[p], candidate'.tree[p])
    BY <1>2, <1>a, <2>1, <2>2, TextValue
  <2>5. \A i \in DOMAIN orders : results'[i].outcome = results[i].outcome
    BY <1>1, <1>2, <1>b, <2>2, <2>3, <2>4, ResultJoins
  <2>6. TextOrdered(p) = TextDue(p)
    BY <1>7 DEF TextOrdered, TextDue
  <2>7. ExactAt(p)'
    BY <1>1, <1>2, <1>4, <1>a, <2>2, <2>5, <2>6, AnchorExact
  <2> QED
    BY <1>1, <1>2, <1>3, <1>a, <1>b, <2>2, <2>3, <2>4, <2>7, AnchorFinishes
<1>8. CASE Injected(p)
  <2>1. PICK output : output = Value(Prefixed(n))
    OBVIOUS
  <2>2. /\ candidate' = [candidate EXCEPT !.tree[p] = Prefixed(n)]
        /\ applied' = Put(applied, p, output)
        /\ results' = Append(Shared(p, output),
                             Result("bootstrap", p, "applied", output, p \in DOMAIN applied))
    BY <1>1, <1>6, <1>8, <1>a, <1>b, <2>1 DEF Inject
  <2>3. results' = Append(Shared(p, output), Result("bootstrap", p, "applied", output, prior))
    <3>1. prior = (p \in DOMAIN applied)
      BY <1>b
    <3> QED
      BY <2>2, <3>1
  <2>4. Prefixed(n) \in Nodes /\ IsText(Prefixed(n))
    BY <1>2, <1>3, NodePrefixed DEF IsText
  <2>5. /\ candidate' \in [params : {Normalized(request)}, tree : [DOMAIN request.tree -> Nodes]]
        /\ candidate'.tree[p] = Prefixed(n)
        /\ \A q \in DOMAIN request.tree \ {p} : candidate'.tree[q] = candidate.tree[q]
    BY <1>2, <1>3, <2>2, <2>4
  <2>6. DOMAIN applied' = DOMAIN applied \cup {p}
    BY <2>2 DEF Put
  <2>7. output = ValueAt(request.tree[p], candidate'.tree[p])
    BY <1>2, <2>1, <2>4, <2>5, TextValue
  <2>8. \A i \in DOMAIN orders : results'[i].outcome = results[i].outcome
    BY <1>1, <1>2, <1>b, <2>3, <2>5, <2>7, ResultJoins
  <2>9. TextDue(p) = [TextOrdered(p) EXCEPT !.prefixes = @ + 1]
    BY <1>8 DEF TextOrdered, TextDue
  <2>10. Stands(p, candidate'.tree[p], TextDue(p))
    BY <1>3, <1>4, <1>a, <2>5, <2>9, PrefixedStands
  <2>11. ExactAt(p)'
    BY <1>1, <1>2, <2>8, <2>10, AnchorExact
  <2> QED
    BY <1>1, <1>2, <1>a, <1>b, <2>3, <2>5, <2>6, <2>7, <2>11, AnchorFinishes
<1> QED
  BY <1>7, <1>8

LEMMA BootstrapRefuses ==
  ASSUME IInv, Operated, Bootstrap, placement.status = "anchored",
         ~(AtAnchor /\ IsText(candidate.tree[placement.anchor.at]))
  PROVE  IInv'
<1>1. /\ phase' = "refused"
      /\ UNCHANGED <<branch, catalog, orders, placement, request, requests,
                     candidate, applied, results>>
  BY DEF Bootstrap
<1>2. OrdersKnown' /\ AnchorKnown' /\ Typed'
  BY <1>1, BootstrapFrame DEF IInv, Typed
<1> QED
  BY <1>1, <1>2 DEF IInv, AtHand, Editing, Finished

LEMMA BootstrapSteps ==
  ASSUME IInv, Bootstrap
  PROVE  IInv'
<1>1. Operated
  BY DEF Bootstrap, Operated
<1>2. placement.status \in {"off", "awaiting", "anchored", "stopped"}
  BY DEF IInv, AnchorKnown
<1> QED
  BY <1>1, <1>2, BootstrapNone, BootstrapStopped, BootstrapAnchored, BootstrapRefuses

(***************************************************************************)
(* The check, and the theorems.                                            *)
(***************************************************************************)
(* The reconciliation finds the empty string that became no content.       *)
LEMMA EmptiedIsFound ==
  ASSUME NEW p \in DOMAIN request.tree, request.tree[p] \in Nodes, Emptied(p)
  PROVE  ~Reconciles
<1>1. p \in Occurrences(Provider(request), request.tree)
  BY DEF Emptied, Occurrences, ResponsesOccurrences, IsContainer, Anthropic, Chat, Responses
<1>2. ~IsText(candidate.tree[p]) /\ IsText(request.tree[p])
  BY EmptiedIsNoText DEF Emptied, IsText
<1>3. ValueAt(request.tree[p], candidate.tree[p]) # Value(request.tree[p])
  <2>1. ValueAt(request.tree[p], candidate.tree[p]) = [block |-> Hashed(candidate.tree[p])]
    BY <1>2 DEF ValueAt
  <2>2. Value(request.tree[p]) = [text |-> request.tree[p].text]
    BY <1>2 DEF Value, ValueAt
  <2>3. \A x, y : [block |-> x] # [text |-> y]
    OBVIOUS
  <2> QED
    BY <2>1, <2>2, <2>3
<1> QED
  BY <1>1, <1>3 DEF Reconciles, Emptied

LEMMA CheckSteps ==
  ASSUME IInv, Check
  PROVE  IInv'
<1>1. /\ phase = "checking" /\ phase' = IF Accepted THEN "sent" ELSE "refused"
      /\ UNCHANGED <<branch, catalog, orders, placement, request, candidate, applied,
                     results, requests>>
  BY DEF Check
<1>2. OrdersKnown' /\ AnchorKnown' /\ Typed'
  BY <1>1 DEF IInv, OrdersKnown, Ordered, AnchorKnown, Typed
<1>3. AtHand'
  BY <1>1 DEF IInv, AtHand
<1>4. CASE ~Accepted
  BY <1>1, <1>2, <1>3, <1>4 DEF IInv, Editing, Finished
<1>5. CASE Accepted
  <2>1. request \in Requests
    BY <1>1 DEF IInv, AtHand
  <2>2. \A p \in DOMAIN request.tree : ExactAt(p)
    BY <1>1, <1>5, <2>1, EmptiedIsFound, RequestAssumption DEF IInv, Finished, Accepted
  <2>3. \A p \in DOMAIN request.tree : ExactAt(p)'
    <3> SUFFICES ASSUME NEW p \in DOMAIN request.tree PROVE ExactAt(p)'
      OBVIOUS
    <3>1. OrderedAt(p)' = OrderedAt(p) /\ TextDue(p)' = TextDue(p)
      BY <1>1 DEF OrderedAt, TextDue, Injected, Echoes
    <3> QED
      BY <1>1, <2>2, <3>1 DEF ExactAt, Kept
  <2>4. OrdersExact' /\ Reported'
    <3>1. OrdersExact /\ Reported
      BY <1>1 DEF IInv, Finished
    <3>2. OrdersExact'
      BY <1>1, <3>1 DEF OrdersExact, Exact
    <3>3. \A i \in DOMAIN results : TrueResult(i) => TrueResult(i)'
      BY <1>1 DEF TrueResult
    <3> QED
      BY <1>1, <3>1, <3>2, <3>3 DEF Reported
  <2>5. Finished'
    BY <1>1, <2>3, <2>4 DEF Finished
  <2> QED
    BY <1>1, <1>2, <1>3, <1>5, <2>5 DEF IInv, Editing
<1> QED
  BY <1>4, <1>5

LEMMA StutterKeeps ==
  ASSUME IInv, UNCHANGED vars
  PROVE  IInv'
<1>1. OrdersKnown' /\ AnchorKnown' /\ Typed' /\ AtHand'
  BY DEF vars, IInv, OrdersKnown, Ordered, AnchorKnown, Typed, AtHand
<1>2. Editing'
  <2>1. \A i \in DOMAIN results : UserResult(i) => UserResult(i)'
    BY DEF vars, UserResult, IsResult, Exact, Carried, Like
  <2>2. \A p \in DOMAIN applied : AppliedAt(p) => AppliedAt(p)'
    BY DEF vars, AppliedAt
  <2> QED
    BY <2>1, <2>2 DEF vars, IInv, Editing
<1>3. Finished'
  <2>1. OrdersExact => OrdersExact'
    BY DEF vars, OrdersExact, Exact
  <2>2. \A i \in DOMAIN results : TrueResult(i) => TrueResult(i)'
    BY DEF vars, TrueResult
  <2>3. Reported => Reported'
    BY <2>2 DEF vars, Reported
  <2>4. \A p \in DOMAIN request.tree : (ExactAt(p) => ExactAt(p)') /\ (Emptied(p) => Emptied(p)')
    <3> SUFFICES ASSUME NEW p \in DOMAIN request.tree
                 PROVE  (ExactAt(p) => ExactAt(p)') /\ (Emptied(p) => Emptied(p)')
      OBVIOUS
    <3>1. OrderedAt(p)' = OrderedAt(p) /\ TextDue(p)' = TextDue(p)
      BY DEF vars, OrderedAt, TextDue, Injected, Echoes
    <3> QED
      BY <3>1 DEF vars, ExactAt, Kept, Emptied
  <2> QED
    BY <2>1, <2>3, <2>4 DEF vars, IInv, Finished
<1> QED
  BY <1>1, <1>2, <1>3 DEF IInv

(* The invariant holds in every state of every branch.                     *)
THEOREM Invariant == Spec => []IInv
<1>1. ASSUME IInv, Next PROVE IInv'
  <2>1. CASE OrderOne
    BY <1>1, <2>1, OrderSteps DEF OrderOne
  <2>2. CASE RestoreOne
    BY <1>1, <2>2, RestoreSteps DEF RestoreOne
  <2>3. CASE RejectOne
    BY <1>1, <2>3, RejectSteps DEF RejectOne
  <2>4. CASE ReceiveOne
    BY <1>1, <2>4, ReceiveSteps DEF ReceiveOne
  <2>5. CASE Operate
    BY <1>1, <2>5, OperateSteps
  <2>6. CASE Bootstrap
    BY <1>1, <2>6, BootstrapSteps
  <2>7. CASE Check
    BY <1>1, <2>7, CheckSteps
  <2> QED
    BY <1>1, <2>1, <2>2, <2>3, <2>4, <2>5, <2>6, <2>7 DEF Next
<1>2. IInv /\ [Next]_vars => IInv'
  BY <1>1, StutterKeeps
<1> QED
  BY InitEstablishes, <1>2, PTL DEF Spec

(* The variables keep their types, and no more surgeries are active than   *)
(* the bound allows.                                                       *)
THEOREM TypeCorrect == Spec => []TypeOK
<1>1. IInv => TypeOK
  BY DEF IInv, OrdersKnown, Ordered, AnchorKnown, Typed, TypeOK
<1> QED
  BY <1>1, Invariant, PTL

(* No surgery is carried out in another history than it was ordered in:    *)
(* up to its place the request holds what the user saw.                    *)
THEOREM SurgeriesKeepToTheirHistory == Spec => []SameHistory
<1>1. ASSUME IInv PROVE SameHistory
  <2> SUFFICES ASSUME phase = "sent", NEW i \in DOMAIN orders, results[i].outcome = "applied"
               PROVE  AsSeen(orders[i])
    BY DEF SameHistory
  <2>1. Exact(orders[i], request)
    BY <1>1 DEF IInv, Finished, OrdersExact
  <2>2. orders[i].identity = Identity(Provider(request), orders[i].seen, orders[i].at)
    BY <1>1 DEF IInv, OrdersKnown, Ordered, AtHand
  <2>3. Identity(Provider(request), orders[i].seen, orders[i].at) =
        Identity(Provider(request), request.tree, orders[i].at)
    BY <2>1, <2>2 DEF Exact
  <2> QED
    BY <2>3, IdentityIsHistory DEF AsSeen
<1> QED
  BY <1>1, Invariant, PTL

(* What is sent is what was received with its edits, and nothing else.     *)
THEOREM SentIsEdited == Spec => []ExactEdit
<1>1. ASSUME IInv PROVE ExactEdit
  <2> SUFFICES ASSUME phase = "sent" PROVE
        /\ DOMAIN candidate.tree = DOMAIN request.tree
        /\ \A p \in DOMAIN request.tree : ExactAt(p)
        /\ LimitOf(candidate.params) = LimitOf(request.params)
        /\ ~Cursor(request) => candidate.params.chat_only = request.params.chat_only
    BY DEF ExactEdit
  <2>1. /\ request \in Requests /\ request.params \in Params
        /\ candidate \in [params : {Normalized(request)}, tree : [DOMAIN request.tree -> Nodes]]
    BY <1>1, RequestAssumption DEF IInv, AtHand
  <2>2. \A p \in DOMAIN request.tree : ExactAt(p)
    BY <1>1 DEF IInv, Finished
  <2>3. DOMAIN candidate.tree = DOMAIN request.tree /\ candidate.params = Normalized(request)
    BY <2>1
  <2>4. LimitOf(Normalized(request)) = LimitOf(request.params)
    BY <2>1 DEF Normalized, LimitOf, Params, Absent
  <2>5. ~Cursor(request) => Normalized(request).chat_only = request.params.chat_only
    BY <2>1 DEF Normalized, Params
  <2> QED
    BY <2>2, <2>3, <2>4, <2>5
<1> QED
  BY <1>1, Invariant, PTL

(* Every surgery and the bootstrap text have one result, and it says what  *)
(* is sent.                                                                *)
THEOREM ResultsAreTruthful == Spec => []ResultsTruthful
<1>1. IInv => ResultsTruthful
  BY DEF IInv, Finished, Reported, ResultsTruthful
<1> QED
  BY <1>1, Invariant, PTL

=============================================================================
