------------------------------- MODULE RefPtr -------------------------------
(***************************************************************************)
(* CPPRef and CPPRefPtr (include/ref/cppref.h): objects that count who     *)
(* holds them, and the pointers that hold them.  An object may have a      *)
(* CPPRefPtr as a member, which its destructor destroys, so that one       *)
(* Release can set off another.                                            *)
(*                                                                         *)
(* An operation on a pointer is a step that leaves its calls of Retain and *)
(* Release to do, each of which is a step of its own.  CPPRefPtr is not    *)
(* for use by two threads at once; the count itself is atomic.             *)
(*                                                                         *)
(* The operator= for another CPPRefPtr (line 95) is left out.  It is a     *)
(* template, which is no copy assignment operator: p = q takes the one the *)
(* compiler generates, which copies _p and counts nothing.  The users here *)
(* assign raw pointers, for which the operator of line 110 is.             *)
(***************************************************************************)
EXTENDS Naturals, Sequences, FiniteSets, Functions

CONSTANTS
    Objects,          \* CPPRefs, each with a member of type CPPRefPtr
    Locals,           \* other variables of type CPPRefPtr
    Null              \* NULL

ASSUME ObjectsAssumption == IsFiniteSet(Objects) /\ IsFiniteSet(Locals)
ASSUME NullAssumption == Null \notin Objects

VARIABLES
    mref,             \* m_ref of each object, 0 before it is made and after its end
    made,             \* the objects that have been made
    gone,             \* the objects that have been destroyed
    creators,         \* the objects whose creator has not released them yet
    local,            \* _p of each local pointer that exists
    member,           \* _p of the member of each object that exists
    todo              \* the Retains and Releases the running operation has still to do

ptrvars == <<mref, made, gone, creators, local, member, todo>>

Alive == made \ gone

\* p->Retain(), p->Release(), unless p is NULL.
Retain(p) == IF p = Null THEN <<>> ELSE <<[op |-> "retain", of |-> p]>>
Release(p) == IF p = Null THEN <<>> ELSE <<[op |-> "release", of |-> p]>>

PtrInit ==
    /\ mref = [o \in Objects |-> 0]
    /\ made = {} /\ gone = {} /\ creators = {}
    /\ local = <<>>
    /\ member = <<>>
    /\ todo = <<>>

With(f, x, v) == [y \in DOMAIN f \cup {x} |-> IF y = x THEN v ELSE f[y]]
Without(f, x) == Restrict(f, DOMAIN f \ {x})

\* What a piece of code can lay its hands on: what it has created or points to.
InReach ==
    creators \cup ({local[l] : l \in DOMAIN local} \ {Null})
             \cup ({member[o] : o \in DOMAIN member} \ {Null})

-----------------------------------------------------------------------------
(* The users of the classes *)

\* The constructor of an object, for whom made it.
Make(o) ==
    /\ todo = <<>>
    /\ o \notin made
    /\ made' = made \cup {o}
    /\ creators' = creators \cup {o}
    /\ mref' = [mref EXCEPT ![o] = 1]
    /\ member' = With(member, o, Null)
    /\ UNCHANGED <<gone, local, todo>>

CreatorReleases(o) ==
    /\ todo = <<>>
    /\ o \in creators
    /\ creators' = creators \ {o}
    /\ todo' = Release(o)
    /\ UNCHANGED <<mref, made, gone, local, member>>

\* Mutant: the copy constructor of the compiler.
ConstructUnretained(l) ==
    /\ todo = <<>>
    /\ l \notin DOMAIN local
    /\ \E p \in InReach \cup {Null} : local' = With(local, l, p)
    /\ UNCHANGED <<mref, made, gone, creators, member, todo>>

\* The constructors: of nothing, of a T* and of another CPPRefPtr.
Construct(l) ==
    /\ todo = <<>>
    /\ l \notin DOMAIN local
    /\ \E p \in InReach \cup {Null} :
         /\ local' = With(local, l, p)
         /\ todo' = Retain(p)
    /\ UNCHANGED <<mref, made, gone, creators, member>>

\* The destructor.
Destruct(l) ==
    /\ todo = <<>>
    /\ l \in DOMAIN local
    /\ local' = Without(local, l)
    /\ todo' = Release(local[l])
    /\ UNCHANGED <<mref, made, gone, creators, member>>

\* Mutant: the old object is released before the new one is retained.
ReassignReleasesFirst(old, new) ==
    IF old = new THEN <<>> ELSE Release(old) \o Retain(new)

\* operator=(P*): nothing is done for the same object, which keeps it from being
\* released by an assignment to itself.
Reassign(old, new) ==
    IF old = new THEN <<>> ELSE Retain(new) \o Release(old)

AssignLocal(l) ==
    /\ todo = <<>>
    /\ l \in DOMAIN local
    /\ \E p \in InReach \cup {Null} :
         /\ local' = [local EXCEPT ![l] = p]
         /\ todo' = Reassign(local[l], p)
    /\ UNCHANGED <<mref, made, gone, creators, member>>

AssignMember(o) ==
    /\ todo = <<>>
    /\ o \in InReach \cap DOMAIN member
    /\ \E p \in InReach \cup {Null} :
         /\ member' = [member EXCEPT ![o] = p]
         /\ todo' = Reassign(member[o], p)
    /\ UNCHANGED <<mref, made, gone, creators, local>>

-----------------------------------------------------------------------------
(* CPPRef *)

Calls(op) == todo # <<>> /\ Head(todo).op = op

RunRetain ==
    /\ Calls("retain")
    /\ mref' = [mref EXCEPT ![Head(todo).of] = @ + 1]
    /\ todo' = Tail(todo)
    /\ UNCHANGED <<made, gone, creators, local, member>>

\* Release finds others who hold the object ...
RunRelease ==
    /\ Calls("release")
    /\ mref[Head(todo).of] > 1
    /\ mref' = [mref EXCEPT ![Head(todo).of] = @ - 1]
    /\ todo' = Tail(todo)
    /\ UNCHANGED <<made, gone, creators, local, member>>

\* Mutant: the destructor of the member is not run.
RunLastReleaseOnly ==
    /\ Calls("release")
    /\ LET o == Head(todo).of
       IN  /\ mref[o] = 1
           /\ mref' = [mref EXCEPT ![o] = 0]
           /\ gone' = gone \cup {o}
           /\ member' = Without(member, o)
    /\ todo' = Tail(todo)
    /\ UNCHANGED <<made, creators, local>>

\* ... or none: m_dcb or delete, and the destructor of the member.
RunLastRelease ==
    /\ Calls("release")
    /\ LET o == Head(todo).of
       IN  /\ mref[o] = 1
           /\ mref' = [mref EXCEPT ![o] = 0]
           /\ gone' = gone \cup {o}
           /\ member' = Without(member, o)
           /\ todo' = Release(member[o]) \o Tail(todo)
    /\ UNCHANGED <<made, creators, local>>

-----------------------------------------------------------------------------
PtrUserStep ==
    \/ \E o \in Objects : Make(o) \/ CreatorReleases(o) \/ AssignMember(o)
    \/ \E l \in Locals : Construct(l) \/ Destruct(l) \/ AssignLocal(l)

PtrRefStep == RunRetain \/ RunRelease \/ RunLastRelease

PtrNext == PtrUserStep \/ PtrRefStep

PtrSpec == PtrInit /\ [][PtrNext]_ptrvars

-----------------------------------------------------------------------------
(* Properties *)

\* How many pointers there are to an object.
Pointers(o) ==
    Cardinality({l \in DOMAIN local : local[l] = o})
      + Cardinality({m \in DOMAIN member : member[m] = o})

ToDo(op, o) == Cardinality({i \in DOMAIN todo : todo[i] = [op |-> op, of |-> o]})

\* The count of an object is that of those who hold it, with what is still to do.
RefsBalanced ==
    \A o \in Objects :
        mref[o] + ToDo("retain", o)
          = (IF o \in creators THEN 1 ELSE 0) + Pointers(o) + ToDo("release", o)

\* Nothing is done with an object that has been destroyed, and no pointer is left
\* to one.
HeldIsAlive ==
    /\ \A i \in DOMAIN todo : todo[i].of \in Alive
    /\ InReach \subseteq Alive

\* One Release sets off all the others it should, however the objects hold each
\* other: when an operation is done, what nobody holds has been destroyed.
UnheldIsDestroyed ==
    todo = <<>> => \A o \in made \ creators : Pointers(o) = 0 => o \in gone

\* Every object lives exactly as long as it is held.
HeldExactly == RefsBalanced /\ HeldIsAlive /\ UnheldIsDestroyed

=============================================================================
