---------------------------- MODULE MCAlgorithms ----------------------------
(* Two algorithms that share nothing: one of them runs, on inputs chosen at the *)
(* start.                                                                      *)
EXTENDS Chunking, SafeFetch

CONSTANTS LongTexts, ShortTexts, h1, h2, h3, h4

VARIABLE task

Texts(n) == UNION {[1 .. k -> Characters] : k \in 0 .. n}

\* A long first block, whose text may be cut, then a short one; one may be a
\* heading.
MCDrafts ==
  { << [text |-> t, page |-> 1, heading |-> g], [text |-> u, page |-> p, heading |-> h] >>
    : t \in Texts(LongTexts), u \in Texts(ShortTexts), p \in {1, 2},
      <<g, h>> \in {<<FALSE, FALSE>>, <<FALSE, TRUE>>, <<TRUE, FALSE>>} }

\* h1 and h2 are https, h3 and h4 are not; h4 is not allowed.
MCUrls == {h1, h2, h3, h4}

Init ==
  /\ task \in {"chunk", "fetch"}
  /\ IF task = "chunk" THEN ChunkInit ELSE phase = "chunked" /\ drafts = <<>> /\ overlap = 0
       /\ blocks = <<>> /\ at = <<1, 0>> /\ units = <<>> /\ chunks = <<>>
  /\ IF task = "fetch" THEN FetchInit ELSE step = "ok" /\ current = h1
       /\ visited = {} /\ redirects = 0 /\ clock = 0 /\ remaining = 0
       /\ pinned = {} /\ connected = <<>> /\ body = [NoBody EXCEPT !.media = "other"]

Next ==
  \/ task = "chunk" /\ ChunkNext /\ UNCHANGED <<task, fetchVars>>
  \/ task = "fetch" /\ FetchNext /\ UNCHANGED <<task, chunkVars>>

Spec == Init /\ [][Next]_<<task, chunkVars, fetchVars>>
=============================================================================
