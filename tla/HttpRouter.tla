----------------------------- MODULE HttpRouter -----------------------------
(***************************************************************************)
(* The router of HTTP requests: src/native/uwebsockets/HttpRouter.h.       *)
(*                                                                         *)
(* A tree of nodes, one level for the method and one for each segment of   *)
(* the pattern; a node holds indexes into one list of handlers.  A route   *)
(* that is registered again, or with a null handler, is removed first: the *)
(* tree is culled and every larger index lowered.  A request goes to one   *)
(* handler after the other until one does not yield.                       *)
(*                                                                         *)
(* Only registration changes the router, and never within a handler        *)
(* (insideRouteDispatch, AppWrapper.h:366): routing is a function of it.   *)
(***************************************************************************)
EXTENDS Integers, Sequences, SequencesExt

CONSTANTS
  Patterns,     \* sequences of segments: "" and names, ":" and "*"
  Urls,         \* sequences of segments
  MaxSegments,  \* MAX_URL_SEGMENTS
  MaxRoutes,    \* bound: routes registered at a time
  DefaultRoute  \* an application's router has its 404 page, a server name's has not

ASSUME RouterAssumption == {MaxSegments, MaxRoutes} \subseteq Nat \ {0} /\ DefaultRoute \in BOOLEAN

VARIABLES
  handlers,   \* the list of handlers: which registration each is of
  root,       \* the children of the root node
  routes      \* history: the registrations that have not been undone

vars == <<handlers, root, routes>>

-----------------------------------------------------------------------------
(* Routes.                                                                 *)

HIGH == 0

MEDIUM == 1

LOW == 2

\* What an application registers with get and ws, post and any: post stands for
\* the methods that are neither first nor last.
Methods == <<"GET", "POST", "*">>

Registrable ==
  {[method |-> method, priority |-> priority, pattern |-> pattern] :
     method \in Range(Methods), priority \in {HIGH, MEDIUM, LOW}, pattern \in Patterns}

\* The priority onHttp gives a route.
Keys ==
  {key \in Registrable :
     CASE key.method = "*" -> key.priority = LOW
       [] key.method = "GET" -> key.priority # LOW
       [] OTHER -> key.priority = MEDIUM}

\* The segments getUrlSegment finds before it stops.
Segments(url) == SubSeq(url, 1, IF Len(url) > MaxSegments THEN MaxSegments ELSE Len(url))

-----------------------------------------------------------------------------
(* The tree.                                                               *)

Node(name, high) == [name |-> name, high |-> high, handlers |-> <<>>, children |-> <<>>]

LexicalOrder(name) == CASE name = ":" -> 1 [] name = "*" -> 0 [] OTHER -> 2

\* Variant: the order does not look at priorities.
PrecedesByName(new, old) == old.name # "" /\ LexicalOrder(old.name) < LexicalOrder(new.name)

Precedes(new, old) ==
  IF new.high # old.high THEN new.high
  ELSE old.name # "" /\ LexicalOrder(old.name) < LexicalOrder(new.name)

\* upper_bound.
Bound(s, Before(_)) == LET at == {i \in DOMAIN s : Before(s[i])} IN IF at = {} THEN Len(s) + 1 ELSE Min(at)

Position(children, name, high) ==
  LET at == {i \in DOMAIN children : children[i].name = name /\ children[i].high = high}
  IN  IF at = {} THEN 0 ELSE Min(at)

\* getNode: the children with a node of that name, at the end below the root.
WithNode(children, name, high, sorted) ==
  IF Position(children, name, high) # 0 THEN children
  ELSE LET at == IF sorted THEN Bound(children, LAMBDA old : Precedes(Node(name, high), old)) ELSE Len(children) + 1
       IN  InsertAt(children, at, Node(name, high))

\* A handler is its priority and its index: ids are compared as numbers.
Above(id, other) == id.priority > other.priority \/ (id.priority = other.priority /\ id.index > other.index)

RECURSIVE Added(_, _, _, _)
Added(node, pattern, id, depth) ==
  IF pattern = <<>>
  THEN [node EXCEPT !.handlers = InsertAt(@, Bound(@, LAMBDA old : Above(old, id)), id)]
  ELSE LET high     == depth > 0 /\ id.priority = HIGH
           children == WithNode(node.children, Head(pattern), high, depth > 0)
           i        == Position(children, Head(pattern), high)
       IN  [node EXCEPT !.children = [children EXCEPT ![i] = Added(@, Tail(pattern), id, depth + 1)]]

Rank(method) == CHOOSE i \in DOMAIN Methods : Methods[i] = method

\* "ANY method must be last, GET must be first".
SortedMethods(children) == SortSeq(children, LAMBDA a, b : Rank(a.name) < Rank(b.name))

\* findHandler: the node of a pattern, then the handler of that priority there.
RECURSIVE Found(_, _, _)
Found(node, pattern, priority) ==
  IF pattern = <<>> THEN {id \in Range(node.handlers) : id.priority = priority}
  ELSE LET i == Position(node.children, Head(pattern), priority = HIGH)
       IN  IF i = 0 THEN {} ELSE Found(node.children[i], Tail(pattern), priority)

FindHandler(key) ==
  UNION {Found(node, Segments(key.pattern), key.priority) : node \in {n \in Range(root) : n.name = key.method}}

\* Variant: ids are compared with their priority.
LoweredById(id, gone) == IF Above(id, gone) THEN [id EXCEPT !.index = @ - 1] ELSE id

Lowered(id, gone) == IF id.index > gone.index THEN [id EXCEPT !.index = @ - 1] ELSE id

\* "Scan for equal (remove), greater (lower by 1)".
Scanned(node, gone) ==
  LET left == SelectSeq(node.handlers, LAMBDA id : id # gone)
  IN  [node EXCEPT !.handlers = [i \in DOMAIN left |-> Lowered(left[i], gone)]]

Alive(nodes) == SelectSeq(nodes, LAMBDA n : n.handlers # <<>> \/ n.children # <<>>)

\* cullNode: the children, then the node.
RECURSIVE CullNode(_, _)
CullNode(children, gone) ==
  Alive([i \in DOMAIN children |-> [Scanned(children[i], gone) EXCEPT !.children = CullNode(@, gone)]])

-----------------------------------------------------------------------------
(* Routing.                                                                *)

\* executeHandlers, all handlers yielding: those it runs, each with the
\* parameters pushed when it does.
RECURSIVE Execute(_, _, _)
Execute(node, segments, params) ==
  IF segments = <<>> THEN [i \in DOMAIN node.handlers |-> [of |-> handlers[node.handlers[i].index], params |-> params]]
  ELSE LET name(p)  == p.name
           runs(p) ==
             CASE name(p) = "*" -> Execute(p, <<>>, params)
               [] name(p) = ":" /\ Head(segments) # "" -> Execute(p, Tail(segments), Append(params, Head(segments)))
               [] name(p) \notin {"*", ":"} /\ name(p) = Head(segments) -> Execute(p, Tail(segments), params)
               [] OTHER -> <<>>
       IN  FlattenSeq([i \in DOMAIN node.children |-> runs(node.children[i])])

Undefined == <<[of |-> "undefined", params |-> <<>>]>>

\* route: the node of the method, then the last one.  That there is one is not
\* looked at before a URL with too many segments is given to it.
Route(method, url) ==
  LET own  == SelectSeq(root, LAMBDA n : n.name = method)
      try(nodes) == IF nodes = <<>> THEN <<>> ELSE Execute(Head(nodes), Segments(url), <<>>)
      last == IF root = <<>> THEN <<>> ELSE <<Last(root)>>
  IN  CASE Len(url) > MaxSegments /\ root = <<>> -> Undefined
        [] Len(url) > MaxSegments /\ root # <<>> -> try(last)
        [] OTHER -> try(own) \o try(last)

-----------------------------------------------------------------------------
(* Registration.                                                           *)

\* A registration of a key is told from the one it replaces.
Registration(key) == [key |-> key, again |-> [key |-> key, again |-> FALSE] \in routes]

Others(key) == {route \in routes : route.key # key}

\* remove: nothing, or the first handler findHandler meets.
AfterRemove(key) ==
  LET found == FindHandler(key)
      gone  == CHOOSE id \in found : \A other \in found : ~Above(id, other)
  IN  IF found = {} THEN [list |-> handlers, tree |-> root]
      ELSE [list |-> RemoveAt(handlers, gone.index), tree |-> CullNode(root, gone)]

\* add, whose first step is remove.
Register(key) ==
  LET after == AfterRemove(key)
      id    == [priority |-> key.priority, index |-> Len(after.list) + 1]
      top   == [Node("rootNode", FALSE) EXCEPT !.children = after.tree]
  IN  /\ Len(handlers) < MaxRoutes \/ \E route \in routes : route.key = key
      /\ handlers' = Append(after.list, Registration(key))
      /\ root' = SortedMethods(Added(top, <<key.method>> \o Segments(key.pattern), id, 0).children)
      /\ routes' = Others(key) \cup {Registration(key)}

\* onHttp with a null handler.
Unregister(key) ==
  /\ handlers' = AfterRemove(key).list
  /\ root' = AfterRemove(key).tree
  /\ routes' = Others(key)

NotFound == [method |-> "*", priority |-> LOW, pattern |-> <<"*">>]

AnyNode == Node("*", FALSE)

Init ==
  IF DefaultRoute
  THEN LET id == [priority |-> LOW, index |-> 1]
       IN  /\ handlers = <<[key |-> NotFound, again |-> FALSE]>>
           /\ root = <<Added(AnyNode, <<"*">>, id, 1)>>
           /\ routes = {[key |-> NotFound, again |-> FALSE]}
  ELSE handlers = <<>> /\ root = <<AnyNode>> /\ routes = {}

Next == \E key \in Keys : Register(key) \/ Unregister(key)

Spec == Init /\ [][Next]_vars

-----------------------------------------------------------------------------
(* Properties.                                                             *)

Matches(pattern, url) ==
  LET n == Len(pattern)
  IN  /\ n > 0
      /\ Len(url) = n \/ (Len(url) > n /\ pattern[n] = "*")
      /\ \A i \in 1 .. n : CASE pattern[i] = "*" -> i = n
                             [] pattern[i] = ":" -> url[i] # ""
                             [] OTHER -> pattern[i] = url[i]

\* Upgrades before requests, then what is more specific in the first segment
\* in which two patterns differ.
MoreSpecific(a, b) ==
  LET differ == {i \in DOMAIN a.key.pattern \cap DOMAIN b.key.pattern : a.key.pattern[i] # b.key.pattern[i]}
  IN  IF (a.key.priority = HIGH) # (b.key.priority = HIGH) THEN a.key.priority = HIGH
      ELSE LET i == Min(differ) IN LexicalOrder(a.key.pattern[i]) > LexicalOrder(b.key.pattern[i])

ParametersOf(route, url) ==
  LET at == SelectSeq([i \in DOMAIN route.key.pattern |-> i], LAMBDA i : route.key.pattern[i] = ":")
  IN  [i \in DOMAIN at |-> url[at[i]]]

\* The routes of a method that match, in the order they are to be tried.
Candidates(method, url) ==
  LET these == SetToSortSeq({r \in routes : r.key.method = method /\ Matches(r.key.pattern, url)}, MoreSpecific)
  IN  [i \in DOMAIN these |-> [of |-> these[i], params |-> ParametersOf(these[i], url)]]

Expected(method, url) ==
  IF Len(url) > MaxSegments THEN Candidates("*", Segments(url))
  ELSE Candidates(method, url) \o Candidates("*", url)

HasAny == root # <<>> /\ Last(root).name = "*"

RequestMethods == Range(Methods) \ {"*"}

\* After any registrations and removals a request is offered to every route of
\* its method that matches, the most specific first, then to the any routes,
\* each with the segments its parameters stand for: indexes lowered by a
\* removal, the order of children and the culled nodes leave no trace.
RoutesBest ==
  HasAny => \A method \in RequestMethods, url \in Urls : Route(method, url) = Expected(method, url)

RECURSIVE Nodes(_)
Nodes(children) == Range(children) \cup UNION {Nodes(n.children) : n \in Range(children)}

RECURSIVE Placed(_, _)
Placed(node, path) ==
  {<<id, path>> : id \in Range(node.handlers)} \cup UNION {Placed(n, Append(path, n.name)) : n \in Range(node.children)}

\* Every handler of the list is held by exactly one node, the one of its own
\* pattern, also after cullNode has lowered the indexes above a removed one:
\* "Scan for equal (remove), greater (lower by 1)" (HttpRouter.h:328).
IndexesResolve ==
  LET placed == UNION {Placed(node, <<node.name>>) : node \in Range(root)}
  IN  /\ \A p \in placed : p[1].index \in DOMAIN handlers
      /\ \A i \in DOMAIN handlers :
           LET key == handlers[i].key
           IN  {p \in placed : p[1].index = i} =
                 {<<[priority |-> key.priority, index |-> i], <<key.method>> \o Segments(key.pattern)>>}
      /\ routes = Range(handlers)

\* A removal leaves no node without handlers and children behind, so that a
\* router whose routes come and go does not grow: "if node holds no handlers
\* after removal, remove the node" (HttpRouter.h:365).
NoDeadNodes ==
  \A node \in Nodes(root) : node.handlers = <<>> /\ node.children = <<>> => node = AnyNode /\ Last(root) = node

\* Culling (HttpRouter.h:324-370) takes out what a removal leaves, all of it and
\* nothing else.
TreeSound == IndexesResolve /\ NoDeadNodes

\* A request is never given to a handler that was registered for another
\* method: "Always have ANY route" (HttpRouter.h:233) is what keeps the last
\* node from being another method's.
OwnMethodOnly ==
  \A method \in RequestMethods, url \in Urls :
    Len(url) <= MaxSegments =>
      \A call \in Range(Route(method, url)) : call.of.key.method \in {method, "*"}

=============================================================================
