------------------------------- MODULE Hosts --------------------------------
(***************************************************************************)
(* hosts.File (resolve/hosts/hosts.go): the hosts file behind a cache that *)
(* is trusted for cacheMaxAge and then while the file's time and size are  *)
(* the recorded ones.  The lock is held for all of a Lookup, so that one   *)
(* runs at a time; the file's writers hold no lock, and step in between    *)
(* any two accesses to the file.                                           *)
(*                                                                         *)
(* A line is its address and the names after it; a text is a sequence of   *)
(* lines.  A line that fills is as long as a multiple of the reader's      *)
(* buffer: the reader hands out its parts as prefixes, with the rest of it *)
(* (the line's end) still to come.                                         *)
(*                                                                         *)
(* step of a Lookup:  idle -> stat -> open -> read -> idle.                *)
(***************************************************************************)
EXTENDS Naturals, Sequences, FiniteSets

CONSTANTS
  Names,        \* canonical names
  Canonical,    \* dns.CanonicalName, a function from the names of the texts
  Addr,
  BadAddr,      \* what netip.ParseAddr refuses
  Texts,        \* what the file may say
  cacheMaxAge,
  MaxChange,    \* bound: changes of the file
  MaxClock      \* bound: the clock

LineType == [addr : Addr \cup {BadAddr}, names : Seq(DOMAIN Canonical), fills : BOOLEAN]

ASSUME HostsAssumption ==
  /\ \A n \in DOMAIN Canonical : Canonical[n] \in Names
  /\ \A t \in Texts : t \in [lines : Seq(LineType), ended : BOOLEAN]
  /\ BadAddr \notin Addr
  /\ cacheMaxAge \in Nat \ {0} /\ MaxChange \in Nat /\ MaxClock \in Nat

VARIABLES
  clock,
  file,      \* the file: its text, time and size, whether it is there
  changed,   \* when it last changed
  f,         \* the File: byName, expire, modTime, size
  step,
  now,       \* the update's variables: now, stat, the file it opened,
  stat,      \* the number of lines read, and byName
  handle,
  pos,
  byName,
  missed     \* the last Lookup to end could not access the file

hostsVars == <<clock, file, changed, f, step, now, stat, handle, pos, byName, missed>>

Nothing == [n \in Names |-> <<>>]
NoFile == [text |-> [lines |-> <<>>, ended |-> TRUE], mtime |-> 0, size |-> 0, there |-> FALSE]

HostsInit ==
  /\ clock = 0
  /\ \E t \in Texts : file = [text |-> t, mtime |-> 1, size |-> Len(t.lines), there |-> TRUE]
  /\ changed = 0
  /\ f = [byName |-> Nothing, expire |-> 0, modTime |-> 0, size |-> 0]
  /\ step = "idle"
  /\ now = 0
  /\ stat = [mtime |-> 0, size |-> 0]
  /\ handle = NoFile
  /\ pos = 0
  /\ byName = Nothing
  /\ missed = FALSE

-----------------------------------------------------------------------------
(* Lookup and update.                                                      *)

\* Lookup returns: what it returns is in f.byName.
LookupEnd(failed) ==
  /\ step' = "idle"
  /\ missed' = failed
  /\ stat' = [mtime |-> 0, size |-> 0]
  /\ handle' = NoFile
  /\ pos' = 0
  /\ byName' = Nothing

\* The cache is trusted.
Hit == clock < f.expire /\ f.byName # Nothing

Lookup ==
  /\ step = "idle"
  /\ now' = clock
  /\ IF Hit
       THEN LookupEnd(FALSE)
       ELSE /\ step' = "stat"
            /\ UNCHANGED <<stat, handle, pos, byName, missed>>
  /\ UNCHANGED <<clock, file, changed, f>>

StatEqual == f.modTime = file.mtime /\ f.size = file.size

\* os.Stat, which may fail though the file is there; so may os.Open.
StatFile ==
  /\ step = "stat"
  /\ \/ /\ LookupEnd(TRUE)
        /\ UNCHANGED f
     \/ /\ file.there
        /\ StatEqual
        /\ f' = [f EXCEPT !.expire = now + cacheMaxAge]
        /\ LookupEnd(FALSE)
     \/ /\ file.there
        /\ ~StatEqual
        /\ step' = "open"
        /\ stat' = [mtime |-> file.mtime, size |-> file.size]
        /\ UNCHANGED <<f, handle, pos, byName, missed>>
  /\ UNCHANGED <<clock, file, changed, now>>

OpenFile ==
  /\ step = "open"
  /\ \/ /\ file.there
        /\ step' = "read"
        /\ handle' = file
        /\ UNCHANGED <<stat, pos, byName, missed>>
     \/ LookupEnd(TRUE)
  /\ UNCHANGED <<clock, file, changed, f, now>>

\* The fields of a line after the first that stand for the name n.
Uses(line, n) == {k \in DOMAIN line.names : Canonical[line.names[k]] = n}

\* Each of them gets the line's address.
Added(names, line) ==
  IF line.addr = BadAddr
    THEN names
    ELSE [n \in Names |-> names[n] \o [j \in 1..Cardinality(Uses(line, n)) |-> line.addr]]

\* At the end of the file, with nothing or a prefix read of the last line.
AtEnd ==
  \/ pos >= Len(handle.text.lines)
  \/ /\ pos + 1 = Len(handle.text.lines)
     /\ handle.text.lines[pos + 1].fills
     /\ ~handle.text.ended

ReadLine ==
  /\ step = "read"
  /\ ~AtEnd
  /\ byName' = Added(byName, handle.text.lines[pos + 1])
  /\ pos' = pos + 1
  /\ UNCHANGED <<clock, file, changed, f, step, now, stat, handle, missed>>

\* Mutants: the file is examined after it has been read; the cache is
\* trusted from then on.
RecordLate ==
  [byName |-> byName, expire |-> now + cacheMaxAge, modTime |-> file.mtime, size |-> file.size]
RecordFromNow ==
  [byName |-> byName, expire |-> clock + cacheMaxAge, modTime |-> stat.mtime, size |-> stat.size]

\* What the update leaves in f.
Record ==
  [byName |-> byName, expire |-> now + cacheMaxAge, modTime |-> stat.mtime, size |-> stat.size]

ReadEOF ==
  /\ step = "read"
  /\ AtEnd
  /\ f' = Record
  /\ LookupEnd(FALSE)
  /\ UNCHANGED <<clock, file, changed, now>>

ReadErr ==
  /\ step = "read"
  /\ LookupEnd(TRUE)
  /\ UNCHANGED <<clock, file, changed, f, now>>

-----------------------------------------------------------------------------
(* The file and the clock.                                                 *)

\* The file says something else: it was written anew, at another time, or
\* has grown within one tick of its clock.  Renaming another file over it
\* leaves an open one as it is, writing into it does not.
Change ==
  /\ file.mtime < MaxChange
  /\ \E t \in Texts, m \in {file.mtime, file.mtime + 1}, inPlace \in BOOLEAN :
       /\ m > file.mtime \/ Len(t.lines) > file.size
       /\ file' = [text |-> t, mtime |-> m, size |-> Len(t.lines), there |-> TRUE]
       /\ handle' = IF inPlace /\ handle = file THEN file' ELSE handle
  /\ changed' = clock
  /\ UNCHANGED <<clock, f, step, now, stat, pos, byName, missed>>

Unlink ==
  /\ file.there
  /\ file' = [file EXCEPT !.there = FALSE]
  /\ UNCHANGED <<clock, changed, f, step, now, stat, handle, pos, byName, missed>>

ClockTick ==
  /\ clock < MaxClock
  /\ clock' = clock + 1
  /\ UNCHANGED <<file, changed, f, step, now, stat, handle, pos, byName, missed>>

HostsNext ==
  \/ Lookup \/ StatFile \/ OpenFile \/ ReadLine \/ ReadEOF \/ ReadErr
  \/ Change \/ Unlink \/ ClockTick

HostsSpec == HostsInit /\ [][HostsNext]_hostsVars

-----------------------------------------------------------------------------
(* Properties.                                                             *)

\* The lines of a text that count: all, but for a last one that fills the
\* buffer where the file ends without a newline.
Counted(t) ==
  LET len == Len(t.lines)
  IN IF len > 0 /\ t.lines[len].fills /\ ~t.ended THEN len - 1 ELSE len

\* s is what the first k lines of a text say of a name: the addresses of the
\* lines that have it, in their order, once for each time they have it.  by
\* tells which line an address is from.
Says(s, t, n, k) ==
  \E by \in [DOMAIN s -> 1..k] :
    /\ \A i, j \in DOMAIN s : i <= j => by[i] <= by[j]
    /\ \A j \in DOMAIN s : s[j] = t.lines[by[j]].addr
    /\ \A i \in 1..k : Cardinality({j \in DOMAIN s : by[j] = i}) =
                        IF t.lines[i].addr = BadAddr THEN 0 ELSE Cardinality(Uses(t.lines[i], n))

\* The names on record are those of the file, all of them.
SaysFile == \A n \in Names : Says(f.byName[n], file.text, n, Counted(file.text))

\* The time and size on record vouch for the names on record: a file that was
\* changed between os.Stat and os.Open, or while it was being read, is never taken
\* for the one whose time and size were recorded.
HostsCurrent ==
  f.modTime = file.mtime /\ f.size = file.size => SaysFile

\* The cache is never older than its age: a Lookup that begins cacheMaxAge
\* after the last change of the file, and can access it, answers by what the
\* file says now, though a Lookup before it may have read half of a change.
HostsFresh ==
  step = "idle" /\ ~missed /\ now >= changed + cacheMaxAge => SaysFile
=============================================================================
