----------------------------- MODULE SourcePolicy -----------------------------
(***************************************************************************)
(* The registry allowlist of a run and the three things made of it: the    *)
(* source policy of a build (pkg/builder/policy.go), the registries that   *)
(* list_images searches (pkg/registryutil/registryutil.go), and the gate   *)
(* of list_tags (internal/plantools/registryutil.go).                      *)
(*                                                                         *)
(* A registry as a person writes it is a member of Written; HostOf says    *)
(* what trimming and lowercasing make of it: a host, Blank, or Malformed   *)
(* if that is not the host (and port) of a registry.  An allowlist is a    *)
(* set, as neither order nor repetition shows in what is made of it.       *)
(***************************************************************************)
EXTENDS Integers, Sequences, FiniteSets, FiniteSetsExt

CONSTANTS
  DockerHub, GHCR, Quay, GCR,   \* the public registries the code knows
  OtherHosts,                   \* hosts of other registries
  Bare,                         \* hosts that a reference puts on Docker Hub
  Written, HostOf,              \* registries as written, and their hosts
  Blank, Malformed

Defaults == {DockerHub, GHCR, Quay, GCR}
Hosts    == Defaults \cup OtherHosts

ASSUME PolicyAssumption ==
  /\ DockerHub # GHCR
  /\ Bare \subseteq OtherHosts
  /\ Hosts \subseteq Written
  /\ HostOf \in [Written -> Hosts \cup {Blank, Malformed}]
  /\ {Blank, Malformed} \cap Hosts = {}
  /\ \A h \in Hosts : HostOf[h] = h   \* a host is lowercase, without spaces

\* What is returned beside an error.
Invalid == {}

NormalizeAllowedRegistries(configured) ==
  LET registries == {HostOf[w] : w \in configured} \ {Blank}
  IN  IF configured = {} THEN Defaults
      ELSE IF Malformed \in registries THEN Invalid
      ELSE registries   \* none but blanks is an error as well

\* Mutant: the search knows the registries it can search, not the allowed ones.
SearchableRegistries_Always(allowed) == {DockerHub, GHCR}

SearchableRegistries(allowed) == {DockerHub, GHCR} \cap allowed

-----------------------------------------------------------------------------
\* A source of a build, and what a rule selects.
Image(host)  == [scheme |-> "docker-image", at |-> host]
Local(name)  == [scheme |-> "local", at |-> name]
Anything     == [scheme |-> "*", at |-> "*"]

buildLocalSources == {"context", "dockerfile"}

\* The rules for one solve of a run, whose allowlist is valid; those of a loop
\* have one action, and are one member of the list.  Images are selected by
\* their registry, local sources by their whole identifier.
sourcePolicy(allowedRegistries) ==
  <<[action |-> "DENY",  selectors |-> {Anything}],
    [action |-> "ALLOW", selectors |-> {Local(name) : name \in buildLocalSources}],
    [action |-> "ALLOW", selectors |-> {Image(host) : host \in NormalizeAllowedRegistries(allowedRegistries)}]>>

\* BuildKit: the last rule that selects a source decides.
Admits(policy, source) ==
  LET hits == {i \in DOMAIN policy : {Anything, source} \cap policy[i].selectors # {}}
  IN  hits = {} \/ policy[Max(hits)].action = "ALLOW"

-----------------------------------------------------------------------------
\* The reference grammar takes a first component without a dot or a port for
\* a part of a path on Docker Hub, and index.docker.io for Docker Hub.
Domain(host) == IF host \in Bare THEN DockerHub ELSE host

\* The registry that list_tags asks for the tags of a valid image, if any.
ListTagsContacts(allowed, w) ==
  IF /\ HostOf[w] \in NormalizeAllowedRegistries(allowed)
     /\ Domain(HostOf[w]) = HostOf[w]
  THEN {HostOf[w]} ELSE {}
=============================================================================
