------------------------------ MODULE Overlay ------------------------------
(***************************************************************************)
(* The additive composition of semantic fragments over a structural graph  *)
(* (knowledge/graph_worker.py): fragments in order, in each the nodes, then *)
(* the edges, then the hyperedges.  Each member is added, or left out with *)
(* a reason.  The candidate is refused if the base read back out of it is  *)
(* no longer the base.                                                     *)
(*                                                                         *)
(* An anchor is a (source file, label) pair; attributes are otherwise the  *)
(* record's own, so a record is lost when another is written in its place. *)
(***************************************************************************)
EXTENDS FiniteSets, Naturals, Sequences

CONSTANTS BaseIds, LocalIds,     \* node identities: of the base, and those fragments invent
          Anchors, NoAnchor,
          HyperIds,
          MaxFragments, MaxMembers

ASSUME OverlayAssumption ==
    /\ MaxFragments \in Nat \ {0} /\ MaxMembers \in Nat
    /\ IsFiniteSet(BaseIds) /\ BaseIds \cap LocalIds = {}

Ids == BaseIds \cup LocalIds
Phases == <<"nodes", "edges", "hyperedges">>

VARIABLES base,      \* [anchor, edges, hyperedges, directed]
          fragment,  \* the fragment at hand and the phase of it
          remapped,  \* local identities that stand for one of the base
          added,     \* [anchor: the nodes added with their anchors, edges, hyperedges]
          declared,  \* observation: the anchors each identity was declared with so far
          last,      \* observation: the last edge or hyperedge accepted, as named and as bound
          members, outcome

overlayVars == <<base, fragment, remapped, added, declared, last, members, outcome>>

Nothing == [names |-> <<>>, bound |-> <<>>]

\* A key of a dictionary is given a value.
With(f, key, value) == [k \in DOMAIN f \cup {key} |-> IF k = key THEN value ELSE f[k]]

\* known_ids
Known == BaseIds \cup DOMAIN added.anchor
Resolve(id) == IF id \in DOMAIN remapped THEN remapped[id] ELSE id
Bound(names) == [i \in DOMAIN names |-> Resolve(names[i])]

Declarations(id) == IF id \in DOMAIN declared THEN declared[id] ELSE {}

\* _overlay_anchor of the base's nodes
Matches(anchor) == IF anchor = NoAnchor THEN {} ELSE {b \in BaseIds : base.anchor[b] = anchor}

InPhase(phase) == /\ outcome = "composing"
                  /\ fragment[2] = phase
                  /\ members < MaxMembers /\ members' = members + 1

Remaps_First(matched) == matched # {}   \* any of several
Remaps(matched) == Cardinality(matched) = 1

\* A node that is known is omitted; one that is proven to be a node of the base stands for it; one
\* that may be several of them is omitted.  An identity that stands for a node is not known: it may
\* be declared again, and come to stand for another node or be added itself, in this fragment or a
\* later one.  Then it still stands for the node: its edges go there.
Node(id, anchor) ==
    /\ InPhase("nodes")
    /\ declared' = With(declared, id, Declarations(id) \cup {anchor})
    /\ LET matched == Matches(anchor) IN
       \/ id \in Known /\ UNCHANGED <<remapped, added>>
       \/ /\ id \notin Known /\ Remaps(matched)
          /\ remapped' = With(remapped, id, CHOOSE b \in matched : TRUE)
          /\ UNCHANGED added
       \/ id \notin Known /\ ~Remaps(matched) /\ matched # {} /\ UNCHANGED <<remapped, added>>
       \/ /\ id \notin Known /\ matched = {}
          /\ added' = [added EXCEPT !.anchor = With(@, id, anchor)]
          /\ UNCHANGED remapped
    /\ UNCHANGED <<base, fragment, last, outcome>>

Collides(s, t) == \E e \in base.edges \cup added.edges : {e[1], e[2]} = {s, t}

Edge(names) ==
    /\ InPhase("edges")
    /\ LET b == Bound(names) IN
       IF b[1] # b[2] /\ b[1] \in Known /\ b[2] \in Known /\ ~Collides(b[1], b[2])
       THEN /\ added' = [added EXCEPT !.edges = @ \cup {b}]
            /\ last' = [names |-> names, bound |-> b]
       ELSE UNCHANGED <<added, last>>
    /\ UNCHANGED <<base, fragment, remapped, declared, outcome>>

\* All the members resolve, or the hyperedge is omitted.
Hyperedge(id, names) ==
    /\ InPhase("hyperedges")
    /\ LET b == Bound(names) IN
       IF /\ id \notin base.hyperedges \cup {h[1] : h \in added.hyperedges}
          /\ \A i \in DOMAIN b : b[i] \in Known
       THEN /\ added' = [added EXCEPT !.hyperedges = @ \cup {<<id, b>>}]
            /\ last' = [names |-> names, bound |-> b]
       ELSE UNCHANGED <<added, last>>
    /\ UNCHANGED <<base, fragment, remapped, declared, outcome>>

NextPhase ==
    /\ outcome = "composing"
    /\ \E i \in 1..2 : fragment[2] = Phases[i] /\ fragment' = <<fragment[1], Phases[i + 1]>>
    /\ UNCHANGED <<base, remapped, added, declared, last, members, outcome>>

NextFragment ==
    /\ outcome = "composing"
    /\ fragment[2] = "hyperedges" /\ fragment[1] < MaxFragments
    /\ fragment' = <<fragment[1] + 1, "nodes">>
    /\ last' = Nothing
    /\ UNCHANGED <<base, remapped, added, declared, members, outcome>>

-----------------------------------------------------------------------------
(* Publication *)

\* The place of an edge in the candidate: nx.Graph has one for both directions.
Place(e) == IF base.directed THEN <<e[1], e[2]>> ELSE {e[1], e[2]}

\* _candidate_baseline_records, projected as the base was: every edge of the base is still at its
\* place, and no node or edge added was written over one.
Preserved ==
    /\ \A e, f \in base.edges : Place(e) = Place(f) => e = f
    /\ \A e \in base.edges, f \in added.edges : Place(e) # Place(f)
    /\ DOMAIN added.anchor \cap BaseIds = {}

Publish ==
    /\ outcome = "composing" /\ fragment = <<MaxFragments, "hyperedges">>
    /\ outcome' = IF DOMAIN added.anchor = {} /\ added.edges = {} /\ added.hyperedges = {}
                  THEN "untouched"
                  ELSE IF Preserved THEN "published" ELSE "refused"
    /\ UNCHANGED <<base, fragment, remapped, added, declared, last, members>>

OverlayInit ==
    /\ base \in [anchor : [BaseIds -> Anchors \cup {NoAnchor}],
                 edges : SUBSET {e \in BaseIds \X BaseIds : e[1] # e[2]},
                 hyperedges : {HyperIds, {}}, directed : BOOLEAN]
    /\ fragment = <<1, "nodes">>
    /\ remapped = <<>> /\ declared = <<>> /\ last = Nothing
    /\ added = [anchor |-> <<>>, edges |-> {}, hyperedges |-> {}]
    /\ members = 0 /\ outcome = "composing"

OverlayNext ==
    \/ \E id \in Ids, anchor \in Anchors \cup {NoAnchor} : Node(id, anchor)
    \/ \E names \in Ids \X Ids : Edge(names) \/ \E id \in HyperIds : Hyperedge(id, names)
    \/ NextPhase \/ NextFragment \/ Publish

OverlaySpec == OverlayInit /\ [][OverlayNext]_overlayVars

-----------------------------------------------------------------------------
(* Properties *)

\* What the plan lets through, the comparison of the projections never refuses, unless the base
\* itself has two edges that an undirected graph holds as one: a whole extraction is not thrown
\* away for an edge that could have been left out.
NeverRefused ==
    outcome = "refused" =>
        \E e, f \in base.edges : e # f /\ {e[1], e[2]} = {f[1], f[2]} /\ ~base.directed

\* What a declaration of a name with an anchor means.
MeansBy(name, anchor, node) ==
    IF node \in BaseIds THEN Matches(anchor) = {node}
    ELSE /\ node = name /\ name \in DOMAIN added.anchor
         /\ added.anchor[name] = anchor /\ Matches(anchor) = {}

AsNamed(name, node) ==
    IF name \in BaseIds THEN node = name
    ELSE \E anchor \in Declarations(name) : MeansBy(name, anchor, node)

\* An accepted edge or hyperedge is between nodes that its names were declared to mean: the one
\* node of the base that has the anchor of a declaration, or the node that was added for a
\* declaration whose anchor the base does not have.  A name always declared with one anchor has one
\* such node; of one declared with several it may be either, and nothing says which.
AttachesAsNamed == \A i \in DOMAIN last.names : AsNamed(last.names[i], last.bound[i])

(* What fragments add is attached to what some declaration of its name means, and the comparison
   that comes last has nothing to refuse but what the base brought (_plan_overlay_additions). *)
ComposedAsMeant == AttachesAsNamed /\ NeverRefused
=============================================================================
