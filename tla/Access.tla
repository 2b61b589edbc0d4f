------------------------------- MODULE Access -------------------------------
(***************************************************************************)
(* Who may read, write and push what: internal/access.go and the checks    *)
(* with which the handlers of the settings and messages services begin.    *)
(* The service knows a caller by the claims of the token alone.            *)
(***************************************************************************)

CONSTANTS
    Owner,      \* users, units and orgs
    Group       \* those of them that isGroupRecipient recognises

\* An owner that a request or a token leaves out is the empty string.
ASSUME AccessAssumption == Group \subseteq Owner /\ "" \notin Owner

\* The claims of a token; admin is the doc_admin scope.
Claims == [sub : Owner, org : Owner \cup {""}, units : SUBSET Owner, admin : BOOLEAN]

-----------------------------------------------------------------------------
(* access.go *)

\* What the caller reads.
getAllOwners(c) == {c.sub} \cup ({c.org} \ {""}) \cup c.units

isAllowedOwner(c, o) == o = c.sub \/ o = c.org \/ o \in c.units

-----------------------------------------------------------------------------
(* The handlers *)

\* The owner a request that names o is about.
TargetOwner(c, o) == IF o = "" THEN c.sub ELSE o

\* GetDocument fetches by name.
MayGet(c, o) == o = "" \/ isAllowedOwner(c, o)

\* The read_only of the document GetDocument answers with.
GotReadOnly(c, owner) == owner # c.sub /\ ~c.admin

\* ListDocuments asks the store for the documents of all owners.
Lists(c, owner) == owner \in getAllOwners(c)

ListedReadOnlyToAll(c, owner) == owner # c.sub
\* The read_only of a document ListDocuments answers with.
ListedReadOnly(c, owner) == owner # c.sub /\ ~c.admin

\* UpdateDocument: another owner's documents are for admins among its members.
MayUpdate(c, o) ==
    \/ o \in {"", c.sub}
    \/ c.admin /\ isAllowedOwner(c, o)

\* DeleteDocument.
MayDelete(c, o) ==
    \/ o \in {"", c.sub}
    \/ c.admin /\ isAllowedOwner(c, o)

\* PushInboxMessage: anybody to a user, admins among its members to a group.
MayPush(c, r) == r # "" /\ (r \in Group => c.admin /\ isAllowedOwner(c, r))

-----------------------------------------------------------------------------
(* Properties *)

\* The rules of the handlers, each written out in its own, agree: documents are
\* fetched by name from exactly the owners they are listed for; both read_only
\* flags say whether an update and a delete would be refused; and what a caller
\* may update, delete, or push to a group, it also lists.
RulesAgree(c) ==
    /\ \A o \in Owner : MayGet(c, o) <=> Lists(c, o)
    /\ \A o \in {p \in Owner : Lists(c, p)} :
          /\ GotReadOnly(c, o) <=> ~MayUpdate(c, o)
          /\ GotReadOnly(c, o) <=> ~MayDelete(c, o)
          /\ ListedReadOnly(c, o) <=> GotReadOnly(c, o)
    /\ \A o \in Owner \cup {""} :
          MayUpdate(c, o) \/ MayDelete(c, o) => Lists(c, TargetOwner(c, o))
    /\ \A r \in Group : MayPush(c, r) => Lists(c, r)
=============================================================================
