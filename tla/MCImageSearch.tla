---------------------------- MODULE MCImageSearch ----------------------------
(***************************************************************************)
(* Searches under allowlists that name each searchable registry, both,     *)
(* none, one twice in two spellings, only blanks, or something that is no  *)
(* registry.  Docker Hub answers with up to three images though the        *)
(* channel has one slot per registry.                                      *)
(***************************************************************************)
EXTENDS ImageSearch

CONSTANTS hub, ghcr, quay, gcr, corp, bare, spaces, path, upperHub, none, bad

SpellHost ==
  [w \in {hub, ghcr, quay, gcr, corp, bare, spaces, path, upperHub} |->
     CASE w = spaces -> none [] w = path -> bad [] w = upperHub -> hub [] OTHER -> w]

SomeConfigs == {{}, {spaces}, {corp, path}, {corp, bare}, {spaces, upperHub, hub},
                {quay, ghcr}, {ghcr, upperHub}}

UpToThree == {<<"a">>, <<"a", "b", "c">>}
=============================================================================
