------------------------------ MODULE DcompScene ------------------------------
(* DcompSceneBackend (render/dcomp/dcomp_scene_backend.cpp): a scene is     *)
(* projected onto a DirectComposition visual tree.  Update stages a whole  *)
(* tree, reusing uploaded surfaces and imported sources by key, and        *)
(* publishes it with one SetRoot and Commit, each of which may fail.       *)
(*                                                                         *)
(* A visual tree is the sequence of what it paints, back to front.  A      *)
(* display list is an address, which is free again when its last reference *)
(* is gone, and a content; made tells two lists apart (history).           *)
EXTENDS SurfaceBinding, SequencesExt

CONSTANTS Nodes, Root, Addresses, Forms, MaxChanges

ASSUME SceneAssumption ==
    /\ Root \in Nodes /\ IsFiniteSet(Nodes) /\ None \notin Addresses /\ MaxChanges \in Nat
    /\ \A n \in Nodes : \A form \in Forms[n] :
          form.shape \in Seq(Panels \cup {"draw"}) /\ form.visible \in BOOLEAN /\ form.children \in Seq(Nodes)

VARIABLES
    scene,      \* the caller's scene: of each node version, visibility, children and list
    lists,      \* what is at each address: [made, commands]
    changes,    \* mutation generations given out
    nodes, surfaces, externals, ready,  \* DcompSceneBackend::Impl
    displayed   \* what the last Commit shows
backendVars == <<nodes, surfaces, externals, ready>>
sceneVars == <<scene, lists, changes>>
vars == <<bindingVars, sceneVars, backendVars, displayed>>

Empty == << >>

SceneInit ==
    /\ scene = [n \in Nodes |-> [version |-> 1, visible |-> TRUE, children |-> <<>>, list |-> None]]
    /\ lists = [a \in Addresses |-> [made |-> 0, commands |-> <<>>]]
    /\ changes = 1
    /\ nodes = Empty /\ surfaces = Empty /\ externals = Empty
    /\ ready = FALSE /\ displayed = Empty
Init == BindingInit /\ SceneInit

-----------------------------------------------------------------------------
(* Lifetimes *)

ListAlive(a) ==
    \/ \E n \in Nodes : scene[n].list = a
    \/ \E n \in DOMAIN nodes : nodes[n].list = a
    \/ \E k \in DOMAIN surfaces : surfaces[k].lifetime = a

(* A command draws, or shows a captured source. *)
Draw == [panel |-> None, generation |-> 0, lifetime |-> None]

SourcesOf(commands) == ToSet(commands) \ {Draw}

Alive(r) ==
    \/ r \in HeldByBinding
    \/ \E a \in Addresses : ListAlive(a) /\ r \in {s.lifetime : s \in SourcesOf(lists[a].commands)}
    \/ \E k \in DOMAIN externals : externals[k].lifetime = r

-----------------------------------------------------------------------------
(* The caller *)

(* display_list.cpp: the commands of an element; a panel paints the source *)
(* that it has now.                                                        *)
Compile(shape) ==
    FlattenSeq([i \in DOMAIN shape |-> IF shape[i] = "draw" THEN <<Draw>> ELSE Capture(shape[i])])

(* No node is below itself: of another scene Update would refuse           *)
(* (Validate) before it looks at anything else.                            *)
Acyclic(s) ==
    \E height \in [Nodes -> 0 .. Cardinality(Nodes)] :
        \A n \in Nodes : \A c \in ToSet(s[n].children) : height[c] < height[n]

(* The caller changes a node: whatever changes, so does its version.       *)
Retain(n) ==
    \E a \in Addresses, form \in Forms[n] :
        /\ changes < MaxChanges /\ ~ListAlive(a)
        /\ changes' = changes + 1
        /\ lists' = [lists EXCEPT ![a] = [made |-> changes + 1, commands |-> Compile(form.shape)]]
        /\ scene' = [scene EXCEPT ![n] = [version |-> changes + 1, visible |-> form.visible,
                                          children |-> form.children, list |-> a]]
        /\ Acyclic(scene')
        /\ UNCHANGED <<bindingVars, backendVars, displayed>>

-----------------------------------------------------------------------------
(* Staging *)

Commands(n) == IF scene[n].list = None THEN <<>> ELSE lists[scene[n].list].commands

(* BuildNode descends from visible nodes only (visible, with an opacity).  *)
Reached ==
    LET under[n \in Nodes] ==
            {n} \cup IF scene[n].visible
                     THEN UNION {under[c] : c \in ToSet(scene[n].children)} ELSE {}
    IN under[Root]

(* The versions are of the nodes that the scene has, the hidden included.  *)
InScene ==
    LET below[n \in Nodes] == {n} \cup UNION {below[c] : c \in ToSet(scene[n].children)}
    IN below[Root]

(* The strata of a list: runs of commands between external surfaces.       *)
IsRun(c, b, e) ==
    /\ b < e
    /\ \A i \in b..(e - 1) : c[i] = Draw
    /\ b = 1 \/ c[b - 1] # Draw
    /\ e = Len(c) + 1 \/ c[e] # Draw

RunsBefore(c, e) == {b \in 1..(e - 1) : \E f \in 1..e : f <= e /\ IsRun(c, b, f)}

SurfaceKey_NoRange(n, b, e) == [node |-> n, list |-> scene[n].list]  \* mutant

SurfaceKey(n, b, e) ==
    [node |-> n, stratum |-> Cardinality(RunsBefore(Commands(n), e)) - 1,
     list |-> scene[n].list, begin |-> b, end |-> e]

ExternalKey_NoSource(n, i, s) == [node |-> n, command |-> i, source |-> None]  \* mutant

ExternalKey(n, i, s) == [node |-> n, command |-> i, source |-> s]

SurfaceEntry_Unowned(n, b, e) ==  \* mutant
    [content |-> [made |-> lists[scene[n].list].made, begin |-> b, end |-> e], lifetime |-> None]

(* UploadCpuSurface: the pixels of a run, which keeps its list alive.      *)
SurfaceEntry(n, b, e) ==
    [content |-> [made |-> lists[scene[n].list].made, begin |-> b, end |-> e],
     lifetime |-> scene[n].list]

ExternalEntry_Unowned(s) == [content |-> s, lifetime |-> None]  \* mutant

(* ImportExternalSurface: a view of the source, which it keeps alive.      *)
ExternalEntry(s) == [content |-> s, lifetime |-> s.lifetime]

(* The caches with what this scene needs and they do not have: its         *)
(* painting nodes are those it reaches and that are visible.               *)
Painting == {n \in Reached : scene[n].visible}

StagedSurfaces ==
    LET runs == UNION {{<<n, b, e>> : b \in 1..Len(Commands(n)), e \in 2..(Len(Commands(n)) + 1)}
                         : n \in Painting}
        needed == {x \in runs : IsRun(Commands(x[1]), x[2], x[3])}
        Key(x) == SurfaceKey(x[1], x[2], x[3])
    IN  [k \in DOMAIN surfaces \cup {Key(x) : x \in needed} |->
            IF k \in DOMAIN surfaces THEN surfaces[k]
            ELSE LET x == CHOOSE x \in needed : Key(x) = k IN SurfaceEntry(x[1], x[2], x[3])]

StagedExternals ==
    LET uses == UNION {{<<n, i>> : i \in DOMAIN Commands(n)} : n \in Painting}
        needed == {x \in uses : Commands(x[1])[x[2]] # Draw}
        Source(x) == Commands(x[1])[x[2]]
        Key(x) == ExternalKey(x[1], x[2], Source(x))
    IN  [k \in DOMAIN externals \cup {Key(x) : x \in needed} |->
            IF k \in DOMAIN externals THEN externals[k]
            ELSE ExternalEntry(Source(CHOOSE x \in needed : Key(x) = k))]

(* BuildNode: of a visible node its runs and sources in their order, then  *)
(* its children; of another one an empty placeholder.  Each content is     *)
(* what Surface and External have for it.                                  *)
PaintOrder(n, Surface(_, _, _), External(_, _, _)) ==
    LET c == Commands(n)
        Ends(i) == {e \in 2..(Len(c) + 1) : IsRun(c, i, e)}
        At(i) == IF c[i] # Draw THEN <<External(n, i, c[i])>>
                 ELSE SetToSeq({Surface(n, i, e) : e \in Ends(i)})
    IN  FlattenSeq([i \in DOMAIN c |-> At(i)])

Tree(own) ==
    LET tree[n \in Reached] ==
            <<[node |-> n, version |-> scene[n].version]>> \o
            IF scene[n].visible
            THEN own[n] \o FlattenSeq([i \in DOMAIN scene[n].children |-> tree[scene[n].children[i]]])
            ELSE <<>>
    IN  tree[Root]

StagedTree ==
    LET staged == StagedSurfaces
        imported == StagedExternals
    IN  Tree([p \in Painting |->
                 PaintOrder(p, LAMBDA n, b, e : staged[SurfaceKey(n, b, e)].content,
                               LAMBDA n, i, s : imported[ExternalKey(n, i, s)].content)])

(* NodeEntry: a hidden node is committed without children.                 *)
StagedNodes ==
    [n \in Reached |->
        [version |-> scene[n].version, list |-> scene[n].list,
         signatures |-> SelectSeq(Commands(n), LAMBDA c : c # Draw),
         children |-> IF scene[n].visible THEN scene[n].children ELSE <<>>]]

Unchanged_Structure(n) == nodes[n].children = scene[n].children  \* mutant

(* CanReuseWholeTree.                                                      *)
Unchanged(n) ==
    /\ nodes[n].version = scene[n].version
    /\ nodes[n].list = scene[n].list
    /\ nodes[n].signatures = SelectSeq(Commands(n), LAMBDA c : c # Draw)
    /\ nodes[n].children = scene[n].children

CanReuseWholeTree ==
    /\ ready /\ DOMAIN nodes = InScene
    /\ \A n \in InScene : Unchanged(n)

-----------------------------------------------------------------------------
(* Update and Detach *)

Reuse ==
    /\ CanReuseWholeTree
    /\ UNCHANGED <<backendVars, displayed>>

AfterFailure_InPlace ==  \* mutant
    /\ IF ready THEN nodes' = StagedNodes ELSE UNCHANGED nodes
    /\ surfaces' = StagedSurfaces /\ externals' = StagedExternals
    /\ UNCHANGED ready

(* The caches are staged in copies, which a failure drops.                 *)
AfterFailure == UNCHANGED backendVars

(* A platform call of the staging, the publish guard, SetRoot or Commit    *)
(* refuses.  A root that stays queued with the target shows nothing, for   *)
(* every Commit is preceded by a SetRoot.                                  *)
UpdateFails ==
    /\ ~CanReuseWholeTree
    /\ AfterFailure
    /\ UNCHANGED displayed

AdoptCaches ==
    /\ nodes' = StagedNodes
    /\ surfaces' = StagedSurfaces
    /\ externals' = StagedExternals

Publish ==
    /\ ~CanReuseWholeTree
    /\ AdoptCaches
    /\ ready' = TRUE
    /\ displayed' = StagedTree

Update == (Reuse \/ UpdateFails \/ Publish) /\ UNCHANGED <<bindingVars, sceneVars>>

(* A failing DetachRoot leaves all as it was.                              *)
Detach ==
    /\ ready
    /\ nodes' = Empty /\ surfaces' = Empty /\ externals' = Empty
    /\ ready' = FALSE /\ displayed' = Empty
    /\ UNCHANGED <<bindingVars, sceneVars>>

-----------------------------------------------------------------------------
Bind ==
    /\ \E t \in Threads :
          \/ \E p \in Panels, r \in {r \in Resources : ~Alive(r)} \cup {None} : BeginSet(t, p, r)
          \/ Commit(t)
          \/ Release(t)
    /\ UNCHANGED <<sceneVars, backendVars, displayed>>

Next == Bind \/ (\E n \in Nodes : Retain(n)) \/ Update \/ Detach

Spec == Init /\ [][Next]_vars

-----------------------------------------------------------------------------
(* Properties *)

(* What the scene looks like, drawn and imported afresh.                   *)
Wanted ==
    Tree([p \in Painting |->
             PaintOrder(p, LAMBDA n, b, e : [made |-> lists[scene[n].list].made, begin |-> b, end |-> e],
                           LAMBDA n, i, s : s)])

(* An Update that reports a commit, be it that it reused the whole tree or *)
(* contents of it, shows the scene it was given; otherwise only Detach     *)
(* changes what is shown.                                                  *)
FrameProtocol ==
    [][IF Reuse \/ Publish THEN displayed' = Wanted
       ELSE displayed' \in {displayed, Empty}]_vars

(* What the compositor shows, or a cache would reuse, is backed by the     *)
(* very source and display list it was made from: neither was released,    *)
(* nor its address given to another one, whatever the producers replaced.  *)
Backed(s) == Alive(s.lifetime) /\ born[s.lifetime] = <<s.panel, s.generation>>

RetainedAlive ==
    /\ \A k \in DOMAIN externals : Backed(externals[k].content)
    /\ \A k \in DOMAIN surfaces : surfaces[k].content.made = lists[k.list].made
    /\ \A i \in DOMAIN displayed : "lifetime" \in DOMAIN displayed[i] => Backed(displayed[i])
=============================================================================
