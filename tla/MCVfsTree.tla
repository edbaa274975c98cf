------------------------------ MODULE MCVfsTree -----------------------------
(***************************************************************************)
(* VfsTree as TLC checks it: small trees, and which operations meet.       *)
(***************************************************************************)
EXTENDS VfsTree, TLC
CONSTANTS a, b, loop, stop

\* The goroutines that save are alike: the persist loop, and the end of a remerge or Stop.
Savers == Permutations(Saver)

\* A section or release d that may hold an SFV, zips or both, another one e, and a link.
MCDirs == {<<>>, <<"d">>, <<"e">>}
MCPath == MCDirs \cup {<<"l">>} \cup ({"d"} \X {"sfv", "f", "diz", "zip"}) \cup ({"e"} \X {"sfv", "f"})

\* Indexes to start from: release e of slave a has an SFV and a payload on slave b;
\* release d has an archive and its description.  In the third, a remerge has found
\* the payload of e, and the race database knows more of it than the entry.
MCFile(s, c) == [Uploaded(s, 1, c) EXCEPT !.fresh = FALSE]
MCDisk(files, meta) ==
  [files |-> [p \in MCPath |-> IF p = Root THEN DirOf(None) ELSE IF p \in DOMAIN files THEN files[p] ELSE None],
   dirMeta |-> [p \in MCPath |-> IF p \in DOMAIN meta THEN meta[p] ELSE None]]
MCSfvRelease == MCDisk(<<"e">> :> DirOf(a) @@ <<"e", "sfv">> :> MCFile(a, 1) @@ <<"e", "f">> :> MCFile(b, 1),
                       <<"e">> :> [NoMeta EXCEPT !.entries = {"f"}, !.sfvSum = 1])
MCFound == [MCSfvRelease EXCEPT !.files[<<"e", "f">>] = Scanned(b, <<"e", "f">>, 1)]
MCZipRelease == MCDisk(<<"d">> :> DirOf(a) @@ <<"d", "diz">> :> MCFile(a, 1) @@ <<"d", "zip">> :> MCFile(b, 1),
                       <<"d">> :> [NoMeta EXCEPT !.zip = 1, !.dizSum = 1])

MCSetting(names, n, file) == [ops |-> names, bound |-> n, disk |-> file]
MCSettings ==
  {MCSetting({"mark", "clear", "age", "move", "delete"}, 3, MCSfvRelease),
   MCSetting({"scan", "scoped", "upload", "exclude", "link", "move", "protect", "clear"}, 2, MCSfvRelease),
   MCSetting({"verify", "hydrate", "stats", "delete", "move"}, 3, MCFound),
   MCSetting({"sfv", "verify", "upload", "stats"}, 2, MCSfvRelease),
   MCSetting({"zip", "request", "upload", "delete", "scrub", "stats", "grow"}, 2, MCZipRelease),
   MCSetting({"scan", "mark", "delete", "save"}, 2, None),
   MCSetting({"mark", "delete", "protect", "move", "verify", "sfv", "save"}, 2, MCSfvRelease),
   MCSetting({"exclude", "save"}, 3, MCSfvRelease)}
=============================================================================
