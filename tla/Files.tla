------------------------------- MODULE Files -------------------------------
(***************************************************************************)
(* Files and directories (file.cpp) of one host directory: opening and      *)
(* creating by name, reading and writing through a descriptor, deleting,    *)
(* enumerating with a mask, and the completion port of a file.              *)
(* A name is a sequence of characters; the host's names are lower case.     *)
(***************************************************************************)
EXTENDS Integers, Sequences, SequencesExt, FiniteSets

CONSTANTS Listing,     \* the names of the host, "." and ".." too, in the order of getdents64
          Masks,       \* masks that a process passes
          Opens,       \* open file objects
          Size,        \* name -> size of the file of that name
          Buffer       \* entries that one getdents64 returns

FilesAssumption == /\ Buffer \in Nat /\ \A i \in 1..Len(Listing) : Listing[i] \in Seq(STRING)
                   /\ {<<".">>, <<".", ".">>} \subseteq ToSet(Listing)

VARIABLES host,        \* name -> "none", "file" or "dir"
          fobj,        \* open object -> its state
          port,        \* the completion port: [handles, refs]
          flife        \* "up"; "freed" when the port went while it had a handle

fvars == <<host, fobj, port, flife>>

Dot == <<".">>
DotDot == <<".", ".">>
HostNames == ToSet(Listing) \ {Dot, DotDot}

\* History: seen is what the host held when the last scan was made, given the
\* names returned since, ended whether the last query said there is no other.
Closed == [class |-> "closed", on |-> <<>>, pos |-> 0, count |-> -1, ptr |-> 0, entries |-> <<>>, mask |-> <<>>,
           completion |-> FALSE, seen |-> {}, given |-> <<>>, ended |-> FALSE]

FInit ==
  /\ host \in [HostNames -> {"none", "file", "dir"}]
  /\ fobj = [o \in Opens |-> Closed]
  /\ port = [handles |-> 1, refs |-> 1] /\ flife = "up"

lowercase(c) == IF c = "A" THEN "a" ELSE c
LowerName(n) == [i \in 1..Len(n) |-> lowercase(n[i])]

----------------------------------------------------------------------------
\* directory_t::match, from character i of the mask and j of the name.  Behind
\* "<" the loop that looks for a dot runs over the end of a name without one,
\* and then the name does not match.
RECURSIVE MatchFrom(_, _, _, _)
MatchFrom(mask, name, i, j) ==
  LET pseudo == name \in {Dot, DotDot}
      Skip[k \in j..(Len(name) + 1)] == IF k > Len(name) \/ name[k] = "." THEN k ELSE Skip[k + 1]
  IN IF i > Len(mask) \/ j > Len(name) THEN i = Len(mask) + 1 /\ j = Len(name) + 1
     ELSE CASE mask[i] = "*" -> TRUE
            [] mask[i] = "?" -> ~pseudo /\ MatchFrom(mask, name, i + 1, j + 1)
            [] mask[i] = "dquote" /\ j # 1 /\ name[j] = "." -> MatchFrom(mask, name, i + 1, j + 1)
            [] mask[i] = ">" /\ name[j] # "." -> MatchFrom(mask, name, i + 1, j + 1)
            [] mask[i] = "<" -> Skip[j] <= Len(name) /\ MatchFrom(mask, name, i + 1, Skip[j])
            [] OTHER -> /\ ~pseudo /\ lowercase(mask[i]) = lowercase(name[j])
                        /\ MatchFrom(mask, name, i + 1, j + 1)
match(mask, name) == mask = <<>> \/ MatchFrom(mask, name, 1, 1)

\* What scandir adds: the pseudo files first, then the others of one buffer of
\* the host's entries, each if the mask matches.
Exists(n) == n \in {Dot, DotDot} \/ host[n] # "none"
getdents64 == LET all == SelectSeq(Listing, Exists) IN SubSeq(all, 1, IF Len(all) < Buffer THEN Len(all) ELSE Buffer)
Candidates == <<Dot, DotDot>> \o SelectSeq(getdents64, LAMBDA n : n \notin {Dot, DotDot})
Matching(mask) == SelectSeq(Candidates, LAMBDA n : match(mask, n))
Noted(d) == [d EXCEPT !.seen = {n \in HostNames : Exists(n)}, !.given = <<>>, !.ended = FALSE]

\* Mutant of scandir: the entries of the last scan stay.
scandir_append(d) ==
  LET found == d.entries \o Matching(d.mask)
  IN [Noted(d) EXCEPT !.entries = found, !.count = Len(found), !.ptr = 0]

\* directory_t::reset and scandir.
scandir(d) == [Noted(d) EXCEPT !.entries = Matching(d.mask), !.count = Len(Matching(d.mask)), !.ptr = 0]

\* NtQueryDirectoryFile on a directory object: the mask is fixed by the first
\* query; get_next stays at the last entry.
QueryDirectory(o, mask, restart) ==
  LET d == fobj[o]
      masked == IF d.count = -1 THEN [d EXCEPT !.mask = mask] ELSE d
      scanned == IF d.count = -1 \/ restart THEN scandir(masked) ELSE masked
      more == scanned.count # 0 /\ scanned.ptr # Len(scanned.entries)
      next == scanned.ptr + 1
  IN /\ flife = "up" /\ d.class = "directory" /\ d.on = <<>>
     /\ fobj' = [fobj EXCEPT ![o] =
                   IF more THEN [scanned EXCEPT !.ptr = next, !.given = Append(@, scanned.entries[next])]
                   ELSE [scanned EXCEPT !.ended = TRUE]]
     /\ UNCHANGED <<host, port, flife>>

----------------------------------------------------------------------------
\* NtCreateFile with open_file, open_unicode_file and open_unicode_dir.  The path
\* is made lower case when the open is case insensitive; a create of a name that
\* exists opens it, as a file or as a directory whatever it is.
CreateFile(o, path, disposition, wantDir, insensitive) ==
  LET n == IF insensitive THEN LowerName(path) ELSE path
      creates == disposition \in {"create", "open_if"}
      exists == n \in HostNames /\ host[n] # "none"
  IN /\ flife = "up" /\ fobj[o] = Closed
     /\ n \in HostNames /\ (exists \/ creates)
     /\ host' = IF exists THEN host ELSE [host EXCEPT ![n] = IF wantDir THEN "dir" ELSE "file"]
     /\ fobj' = [fobj EXCEPT ![o] = [Closed EXCEPT !.class = IF wantDir THEN "directory" ELSE "file",
                                                   !.on = n]]
     /\ UNCHANGED <<port, flife>>

\* Opening the directory itself.
OpenDirectory(o) ==
  /\ flife = "up" /\ fobj[o] = Closed
  /\ fobj' = [fobj EXCEPT ![o] = [Closed EXCEPT !.class = "directory"]]
  /\ UNCHANGED <<host, port, flife>>

\* NtReadFile: the descriptor moves by what there is; a directory cannot be read.
Read(o, len) ==
  /\ flife = "up" /\ fobj[o].class = "file" /\ host[fobj[o].on] = "file"
  /\ fobj' = [fobj EXCEPT ![o] = [@ EXCEPT !.pos = IF @ >= Size[fobj[o].on] THEN @
                                                   ELSE IF @ + len > Size[fobj[o].on] THEN Size[fobj[o].on]
                                                   ELSE @ + len]]
  /\ UNCHANGED <<host, port, flife>>

\* FilePositionInformation.
SetPosition(o, pos) ==
  /\ flife = "up" /\ fobj[o].class = "file"
  /\ fobj' = [fobj EXCEPT ![o] = [@ EXCEPT !.pos = pos]]
  /\ UNCHANGED <<host, port, flife>>

\* NtDeleteFile: opened by name, removed by the path of its descriptor.
DeleteFile(path, insensitive) ==
  LET n == IF insensitive THEN LowerName(path) ELSE path
  IN /\ flife = "up" /\ n \in HostNames /\ host[n] # "none"
     /\ host' = [host EXCEPT ![n] = "none"]
     /\ UNCHANGED <<fobj, port, flife>>

\* FileCompletionInformation: the port is kept without a reference, and released
\* when another one is set.
SetCompletionPort(o) ==
  LET refs == IF fobj[o].completion THEN port.refs - 1 ELSE port.refs
  IN /\ flife = "up" /\ fobj[o].class # "closed" /\ port.handles > 0
     /\ fobj' = [fobj EXCEPT ![o] = [@ EXCEPT !.completion = TRUE]]
     /\ port' = [port EXCEPT !.refs = refs]
     /\ flife' = IF refs = 0 THEN "freed" ELSE "up"
     /\ UNCHANGED host

Close(o) ==
  /\ flife = "up" /\ fobj[o] # Closed
  /\ fobj' = [fobj EXCEPT ![o] = Closed]
  /\ UNCHANGED <<host, port, flife>>

\* Names as a process writes them.
Written == HostNames \cup {[i \in 1..Len(n) |-> IF n[i] = "a" THEN "A" ELSE n[i]] : n \in HostNames}

FNext ==
  \/ \E o \in Opens :
        \/ OpenDirectory(o) \/ SetCompletionPort(o) \/ Close(o)
        \/ \E m \in Masks, r \in BOOLEAN : QueryDirectory(o, m, r)
        \/ \E n \in Written, d \in {"open", "create", "open_if"}, w, i \in BOOLEAN : CreateFile(o, n, d, w, i)
        \/ \E k \in 1..2 : Read(o, k) \/ SetPosition(o, k)
  \/ \E n \in Written, i \in BOOLEAN : DeleteFile(n, i)

FSpec == FInit /\ [][FNext]_fvars

----------------------------------------------------------------------------
\* An enumeration is a snapshot: whatever is created or deleted between its
\* calls, and however often it is restarted, the names returned since the scan
\* are different, are pseudo files or were on the host when the scan was made,
\* and match the mask of the first query.  When there is no other, every name
\* that matches was returned, if the host held no more than one call of
\* getdents64 can tell (scandir, reset, get_next).
EnumerationIsSnapshot ==
  \A o \in Opens :
     LET d == fobj[o]
         due == {n \in d.seen \cup {Dot, DotDot} : match(d.mask, n)}
     IN d.class = "directory" =>
          /\ Cardinality(ToSet(d.given)) = Len(d.given) /\ ToSet(d.given) \subseteq due
          /\ d.ended /\ Cardinality(d.seen) + 2 <= Buffer => ToSet(d.given) = due

\* "right angle matches strings without a dot" (file.cpp:441).
AngleMatchesDotless == \A n \in HostNames : ~Contains(n, ".") => match(<<"<">>, n)
=============================================================================
