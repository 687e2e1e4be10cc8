------------------------------- MODULE Workspace -------------------------------
(***************************************************************************)
(* A workspace that changes while it is searched and watched               *)
(* (packages/workspace/src: workspace-service.ts, workspace-watcher.ts,    *)
(* and the search dispatcher): searchLiteral() lists the tree and reads    *)
(* the files within its budgets, SafeWorkspaceWatcher collects changes.    *)
(*                                                                         *)
(* Files are numbered in the order of their paths.  What policy and ignore *)
(* rules hide is not part of the tree.  A directory may be listed through  *)
(* a link, so directories form a graph.                                    *)
(***************************************************************************)
EXTENDS Naturals, Sequences, FiniteSets, FiniteSetsExt, SequencesExt

CONSTANTS
  Dir, Root,      \* directories, the root among them
  File,           \* files
  Content,        \* sizes in bytes, matches, and whether it is text
  Starts,         \* the trees, what readdir() lists of each directory, and
                  \* the contents of their files, that are looked at
  CheckEvery,     \* entries between two looks at the abort signal
  MaxFiles, MaxFileBytes, MaxSearchBytes, MaxMatches,  \* the budgets
  MaxPending,     \* the names a watcher collects before it gives up
  Mark,           \* the key of the overflow event: "overflow", which may also
                  \* be the path of a file
  MaxChanges      \* bound on what happens to the tree

FilesIn(t, dirs) == File \cap UNION {Range(t[d]) : d \in dirs}
FilesOf(t) == FilesIn(t, Dir)

\* The root leads to every file, and a path is one entry of one directory.
IsTree(t) ==
  /\ t \in [Dir -> Seq(Dir \cup File)]
  /\ \A S \in SUBSET Dir :
       Root \in S /\ (\A d \in S : Range(t[d]) \cap Dir \subseteq S) =>
         FilesOf(t) = FilesIn(t, S)
  /\ \A d, e \in Dir : \A i \in DOMAIN t[d], j \in DOMAIN t[e] :
       t[d][i] = t[e][j] /\ t[d][i] \in File => d = e /\ i = j

WorkspaceParameters ==
  /\ File \subseteq Nat
  /\ Root \in Dir /\ Dir \cap File = {}
  /\ Content \subseteq [size : Nat, matches : Nat, text : BOOLEAN]
  /\ \A s \in Starts : IsTree(s.tree) /\ s.content \in [FilesOf(s.tree) -> Content]
  /\ {CheckEvery, MaxFiles, MaxPending} \subseteq Nat \ {0}
  /\ {MaxFileBytes, MaxSearchBytes, MaxMatches, MaxChanges} \subseteq Nat

VARIABLES
  \* the file system
  tree,
  content,  \* of each file
  gone,     \* what has been removed; the root: replaced
  changed,  \* what has been changed or removed since the search was asked for
  changes,
  \* the search
  at,       \* "idle", "listing", "next", "opening", "reading", "done",
            \* or "read"
  stack,    \* the calls of visit(), the last one running, entry 0 to begin with
  visited,
  files,    \* the candidates; once they are listed, those still to be read
  found,    \* files and bytes scanned, matches, whether it is truncated
  aborted,
  answer,
  \* the watcher
  watching,
  pending,  \* the kind of the event that it has collected under each key
  timer,
  untold    \* the changes it was told of and its listener was not

disk == <<tree, content, gone, changed, changes>>
search == <<at, stack, visited, files, found, aborted, answer>>
watcher == <<watching, pending, timer, untold>>
vars == <<disk, search, watcher>>

NothingFound == [scanned |-> {}, bytes |-> 0, matches |-> 0, truncated |-> FALSE]

NothingPending == [key \in {} |-> "change"]
Uncertain == [key \in {Mark} |-> "overflow"]

Listed == FilesOf(tree)

Init ==
  /\ \E s \in Starts : tree = s.tree /\ content = s.content
  /\ gone = {} /\ changed = {} /\ changes = 0
  /\ at = "idle"
  /\ stack = <<>> /\ visited = {} /\ files = <<>>
  /\ found = NothingFound
  /\ aborted = FALSE
  /\ answer = "none"
  /\ watching = FALSE /\ pending = NothingPending /\ timer = FALSE /\ untold = {}

Present(f) == gone \cap {Root, f} = {}

-----------------------------------------------------------------------------
(* The end of a search.                                                    *)

Answer(outcome) ==
  /\ at' = "done"
  /\ answer' = outcome

\* What is thrown once the caller has aborted counts as a cancellation.
Throw == Answer(IF aborted THEN "cancelled" ELSE "threw")

Search ==
  /\ at = "idle"
  /\ stack' = <<[dir |-> Root, entry |-> 0]>>
  /\ changed' = gone
  /\ IF aborted
     THEN Answer("cancelled")
     ELSE at' = "listing" /\ answer' = "none"
  /\ UNCHANGED <<tree, content, gone, changes, visited, files, found, aborted,
                 watcher>>

\* readText(), the other thing asked of a workspace, is done at once.
ReadText(f) ==
  /\ at = "idle"
  /\ at' = "read"
  /\ answer' = IF aborted THEN "cancelled"
               ELSE IF Present(f) /\ content[f].size <= MaxFileBytes
                       /\ content[f].text
               THEN "succeeded"
               ELSE "threw"
  /\ UNCHANGED <<disk, stack, visited, files, found, aborted, watcher>>

Abort ==
  /\ ~aborted /\ at # "done"
  /\ aborted' = TRUE
  /\ UNCHANGED <<disk, at, stack, visited, files, found, answer, watcher>>

-----------------------------------------------------------------------------
(* #listSearchableFiles()                                                  *)

Running == Last(stack)
Calling == at = "listing" /\ stack # <<>>

Return == stack' = Front(stack)
Goto(entry) == Append(Front(stack), [Running EXCEPT !.entry = entry])

\* visit() up to readdir()
Enter ==
  /\ Calling /\ Running.entry = 0
  /\ \/ /\ \/ aborted
           \/ Len(files) < MaxFiles /\ gone \cap {Root, Running.dir} # {}
        /\ Throw
        /\ UNCHANGED <<stack, visited, found>>
     \/ /\ ~aborted /\ Len(files) >= MaxFiles
        /\ found' = [found EXCEPT !.truncated = TRUE]
        /\ Return
        /\ UNCHANGED <<at, answer, visited>>
     \/ /\ ~aborted /\ Len(files) < MaxFiles
        /\ gone \cap {Root, Running.dir} = {}
        /\ visited' = visited \cup {Running.dir}
        /\ IF Running.dir \in visited THEN Return ELSE stack' = Goto(1)
        /\ UNCHANGED <<at, answer, found>>
  /\ UNCHANGED <<disk, files, aborted, watcher>>

AtEntry == Calling /\ Running.entry \in DOMAIN tree[Running.dir]
Entry == tree[Running.dir][Running.entry]
NextEntry == stack' = Goto(Running.entry + 1)

\* What stands between an entry and its being listed: the abort, at times; its
\* being gone, which lets it be skipped unless it goes after it was resolved;
\* and a link to the root, whose relative path is empty and refused.
EntryFails ==
  /\ AtEntry
  /\ \/ /\ aborted /\ Running.entry % CheckEvery = 1 % CheckEvery
        /\ Throw /\ UNCHANGED stack
     \/ gone \cap {Root, Entry} # {} /\ NextEntry /\ UNCHANGED <<at, answer>>
     \/ gone \cap {Root, Entry} # {} /\ Throw /\ UNCHANGED stack
     \/ Entry = Root /\ Throw /\ UNCHANGED stack
  /\ UNCHANGED <<disk, visited, files, found, aborted, watcher>>

Listable ==
  /\ AtEntry
  /\ aborted => Running.entry % CheckEvery # 1 % CheckEvery
  /\ gone \cap {Root, Entry} = {} /\ Entry # Root

EnterDirectory ==
  /\ Listable /\ Entry \in Dir
  /\ stack' = Append(Goto(Running.entry + 1), [dir |-> Entry, entry |-> 0])
  /\ UNCHANGED <<disk, at, visited, files, found, aborted, answer, watcher>>

\* At the limit the listing of this directory ends, but not that of the ones
\* it is in.
ListFile ==
  /\ Listable /\ Entry \in File
  /\ files' = Append(files, Entry)
  /\ IF Len(files') >= MaxFiles
     THEN Return /\ found' = [found EXCEPT !.truncated = TRUE]
     ELSE NextEntry /\ UNCHANGED found
  /\ UNCHANGED <<disk, at, visited, aborted, answer, watcher>>

EndOfDirectory ==
  /\ Calling /\ Running.entry = Len(tree[Running.dir]) + 1
  /\ Return
  /\ UNCHANGED <<disk, at, visited, files, found, aborted, answer, watcher>>

\* Some files, in the order of their paths.
InOrder(S) ==
  LET place(f) == Cardinality({g \in S : g <= f})
  IN  [n \in 1 .. Cardinality(S) |-> CHOOSE f \in S : place(f) = n]

\* No path was listed twice.
EndOfListing ==
  /\ at = "listing" /\ stack = <<>>
  /\ at' = "next"
  /\ files' = InOrder(Range(files))
  /\ UNCHANGED <<disk, stack, visited, found, aborted, answer, watcher>>

-----------------------------------------------------------------------------
(* The files, one after the other.                                         *)

\* The abort is looked at, then other callbacks run.
NextFile ==
  /\ at = "next" /\ files # <<>>
  /\ IF aborted THEN Throw ELSE at' = "opening" /\ UNCHANGED answer
  /\ UNCHANGED <<disk, stack, visited, files, found, aborted, watcher>>

\* Whatever is thrown about a file has it skipped, or the search cancelled.
Skip ==
  IF aborted THEN Throw /\ UNCHANGED files
  ELSE at' = "next" /\ files' = Tail(files) /\ UNCHANGED answer

\* Mutant of OpenFile: a file that is too large is skipped like a binary one.
OpenFile_Silent ==
  /\ at = "opening"
  /\ IF Present(Head(files)) /\ content[Head(files)].size <= MaxFileBytes
     THEN at' = "reading" /\ UNCHANGED <<files, answer>>
     ELSE Skip
  /\ UNCHANGED <<disk, stack, visited, found, aborted, watcher>>

\* Budgets are compared with what is known before the file is read.
OpenFile ==
  LET f == Head(files)
      size == content[f].size
  IN /\ at = "opening"
     /\ \/ /\ found.matches >= MaxMatches \/ found.bytes >= MaxSearchBytes
           /\ found' = [found EXCEPT !.truncated = TRUE]
           /\ at' = "next" /\ files' = <<>>
           /\ UNCHANGED answer
        \/ /\ found.matches < MaxMatches /\ found.bytes < MaxSearchBytes
           /\ \/ ~Present(f) /\ Skip /\ UNCHANGED found
              \/ /\ Present(f)
                 /\ size > MaxFileBytes \/ found.bytes + size > MaxSearchBytes
                 /\ found' = [found EXCEPT !.truncated = TRUE]
                 /\ at' = "next" /\ files' = Tail(files)
                 /\ UNCHANGED answer
              \/ /\ Present(f)
                 /\ size <= MaxFileBytes
                 /\ found.bytes + size <= MaxSearchBytes
                 /\ at' = "reading"
                 /\ UNCHANGED <<found, files, answer>>
     /\ UNCHANGED <<disk, stack, visited, aborted, watcher>>

\* The file may have changed since its size was taken.
ReadFile ==
  LET f == Head(files)
      hits == found.matches + content[f].matches
  IN /\ at = "reading"
     /\ IF ~Present(f) \/ content[f].size > MaxFileBytes \/ ~content[f].text
        THEN Skip /\ UNCHANGED found
        ELSE /\ found' = [scanned |-> found.scanned \cup {f},
                          bytes |-> found.bytes + content[f].size,
                          matches |-> IF hits < MaxMatches THEN hits
                                      ELSE MaxMatches,
                          truncated |-> found.truncated \/ hits >= MaxMatches]
             /\ at' = "next" /\ files' = Tail(files)
             /\ UNCHANGED answer
     /\ UNCHANGED <<disk, stack, visited, aborted, watcher>>

\* The result must fit its schema.
Finish ==
  /\ at = "next" /\ files = <<>>
  /\ IF Cardinality(found.scanned) > MaxFiles \/ found.bytes > MaxSearchBytes
     THEN Throw
     ELSE Answer("succeeded")
  /\ UNCHANGED <<disk, stack, visited, files, found, aborted, watcher>>

-----------------------------------------------------------------------------
(* The watcher.                                                            *)

Watch ==
  /\ ~watching /\ Root \notin gone
  /\ watching' = TRUE
  /\ UNCHANGED <<disk, search, pending, timer, untold>>

Close ==
  /\ watching
  /\ watching' = FALSE /\ pending' = NothingPending /\ timer' = FALSE
  /\ untold' = {}
  /\ UNCHANGED <<disk, search>>

With(e) ==
  [key \in DOMAIN pending \cup {e} |-> IF key = e THEN "change" ELSE pending[key]]

Full == Cardinality(DOMAIN pending) >= MaxPending

\* Mutant of Collected: what comes when the watcher is full is dropped.
Collected_Dropping(e, named) ==
  IF ~named THEN Uncertain ELSE IF Full THEN pending ELSE With(e)

\* An event of a file that has the key of the overflow event replaces it.
Collected(e, named) == IF Full \/ ~named THEN Uncertain ELSE With(e)

\* #enqueue(), of a name or of the overflow event.
Enqueue(e, named) ==
  /\ pending' = Collected(e, named)
  /\ timer' = TRUE
  /\ untold' = untold \cup {e}
  /\ UNCHANGED watching

\* The callback of fs.watch and its "error" event.  A change may be reported
\* without its name, or not at all: only Windows watches below the root.
Notified(e) ==
  \/ UNCHANGED watcher
  \/ watching /\ Root \notin gone' /\ Enqueue(e, TRUE)
  \/ watching /\ Enqueue(e, FALSE)

\* One change may be reported more than once, also those of what goes with a
\* directory, and after others.
NotifiedAgain(e) ==
  /\ e \in changed
  /\ UNCHANGED <<disk, search>>
  /\ Notified(e)

\* The timer: the listener is told, whatever it does with it.
Deliver ==
  /\ timer
  /\ timer' = FALSE /\ pending' = NothingPending /\ untold' = {}
  /\ UNCHANGED <<disk, search, watching>>

-----------------------------------------------------------------------------
(* What happens to the tree.                                               *)

\* What happens after the search is over is nothing to it.
Change(e, lost) ==
  /\ changes < MaxChanges /\ at # "done"
  /\ changes' = changes + 1
  /\ gone' = gone \cup lost
  /\ changed' = changed \cup lost \cup {e}
  /\ Notified(e)
  /\ UNCHANGED <<tree, search>>

Modify(f) ==
  /\ f \notin gone
  /\ \E c \in Content : content' = [content EXCEPT ![f] = c]
  /\ Change(f, {})

\* A file goes, a directory with the files in it, or the root, for another.
Vanish(e) ==
  LET lost == IF e \in Dir \ {Root} THEN {e} \cup Range(tree[e]) ELSE {e}
  IN /\ e \notin gone
     /\ lost \subseteq File \cup {e}
     /\ Change(e, lost)
     /\ UNCHANGED content

-----------------------------------------------------------------------------
SearchStep ==
  \/ Enter \/ EntryFails \/ EnterDirectory \/ ListFile \/ EndOfDirectory
  \/ EndOfListing \/ NextFile \/ OpenFile \/ ReadFile \/ Finish

Watcher == Watch \/ Close \/ Deliver \/ \E e \in changed : NotifiedAgain(e)

Disk ==
  \/ \E f \in Listed : Modify(f)
  \/ \E e \in Dir \cup Listed : Vanish(e)

Next == Search \/ (\E f \in Listed : ReadText(f)) \/ Abort \/ SearchStep \/ Watcher \/ Disk

Spec == Init /\ [][Next]_vars

-----------------------------------------------------------------------------
(* Properties.                                                             *)

\* "Reaching a budget produces a result marked as truncated, never a silent"
\* extension (docs/architecture/workspace-and-tools.md): a search that is not
\* marked has read every text file that was left alone since it was asked for,
\* and its matches are all of theirs.
SearchIsHonest ==
  LET readable == {f \in Listed : content[f].text}
      matches == [f \in Listed |-> content[f].matches]
  IN at = "done" /\ answer = "succeeded" /\ ~found.truncated /\ Root \notin gone =>
       /\ readable \ changed \subseteq found.scanned
       /\ changed = {} =>
            found.matches = SumFunctionOnSet(matches, readable)

\* The same promise of a search nobody cancels, in a workspace nobody touches:
\* it answers.
SearchAnswers ==
  changes = 0 /\ at = "done" /\ ~aborted => answer = "succeeded"

Marked == \E key \in DOMAIN pending : pending[key] = "overflow"

\* "An uncertain state is expressed as overflow"
\* (docs/architecture/adr/0010-windows-hardening-and-release-gates.md:14): what
\* the watcher was told of and has not delivered is collected by its name, or
\* the overflow event stands for it.
UncertaintyIsTold == untold \subseteq DOMAIN pending \/ Marked

\* What holds of it: what is not collected by its name is covered by the event
\* under the key of the overflow event, which is that event unless the file
\* of that name has changed too; what is collected by its name has changed
\* since the last delivery, and the timer that will deliver it all is running.
WatcherCovers ==
  /\ untold # {} => timer
  /\ untold \subseteq DOMAIN pending \/ Mark \in DOMAIN pending
  /\ \A key \in DOMAIN pending :
       key \in untold \/ (key = Mark /\ pending[key] = "overflow")

=============================================================================
