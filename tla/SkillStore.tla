----------------------------- MODULE SkillStore -----------------------------
(***************************************************************************)
(* The directory of skills, the SkillManager that each chat request makes  *)
(* of it, and the tools by which the model installs, scaffolds and removes *)
(* skills (skills/manager.py, skills/tools.py).                            *)
(*                                                                         *)
(* A skill is a directory with a file SKILL.md, and is known by the name   *)
(* the file gives, which need not be that of the directory.  A tool runs   *)
(* to its end without giving way to another request.  A file system error  *)
(* may end it anywhere; the manager is refreshed only when all went well.  *)
(***************************************************************************)
EXTENDS Integers, Sequences, SequencesExt

CONSTANTS
  Reqs,       \* chat requests
  Sorted,     \* the names of directories and skills in their order
  Bodies,     \* texts of SKILL.md, by their length
  Broken,     \* a directory without a SKILL.md that can be read
  Gone,       \* no directory
  Unknown,    \* an operation on the directory failed
  HeaderLength, SuffixLength, MAX_SKILL_CONTENT_LENGTH,
  MaxWrites

VARIABLES
  folder,     \* the skill directory: directory to [name, body] or Broken
  phase,      \* of a request: "new", "made" (SkillManager), "open" (get_tools), "done"
  cached,     \* _skills_cache: name to [dir, body]
  offered,    \* skills_dict of the request's dive_skill
  reported,   \* history: what the last operation on a directory reported
  behind,     \* history: directories changed since the request last refreshed
  aged,       \* history: directories changed since its tools were made
  writes

skillVars == <<folder, phase, cached, offered, reported, behind, aged, writes>>

Dirs == Range(Sorted)
Contents == [name : Dirs, body : Bodies] \cup {Broken}

\* One step of refresh: a later directory shadows an earlier one of the same name.
Shadow(found, disk, d) ==
  IF d \notin DOMAIN disk \/ disk[d] = Broken THEN found
  ELSE [n \in DOMAIN found \cup {disk[d].name} |->
          IF n = disk[d].name THEN [dir |-> d, body |-> disk[d].body] ELSE found[n]]

\* refresh
Loaded(disk) == FoldLeft(LAMBDA found, d : Shadow(found, disk, d), <<>>, Sorted)

\* The length of read_skill_content's text.
ReadLength(body) ==
  IF HeaderLength + body > MAX_SKILL_CONTENT_LENGTH
    THEN LET budget == MAX_SKILL_CONTENT_LENGTH - HeaderLength - SuffixLength
         IN HeaderLength + (IF budget > 0 THEN budget ELSE 0) + SuffixLength
    ELSE HeaderLength + body

SkillInit ==
  /\ folder = <<>> /\ reported = [d \in Dirs |-> Gone]
  /\ phase = [r \in Reqs |-> "new"]
  /\ cached = [r \in Reqs |-> <<>>] /\ offered = [r \in Reqs |-> <<>>]
  /\ behind = [r \in Reqs |-> {}] /\ aged = [r \in Reqs |-> {}]
  /\ writes = 0

\* SkillManager() of the request: its commands (/name) are found in this cache.
MakeManager(r) ==
  /\ phase[r] = "new"
  /\ phase' = [phase EXCEPT ![r] = "made"]
  /\ cached' = [cached EXCEPT ![r] = Loaded(folder)]
  /\ UNCHANGED <<folder, offered, reported, behind, aged, writes>>

\* get_tools: dive_skill keeps the skills there are now; listing, searching and
\* describing skills go by the manager's cache.
GetTools(r) ==
  /\ phase[r] = "made"
  /\ phase' = [phase EXCEPT ![r] = "open"]
  /\ offered' = [offered EXCEPT ![r] = cached[r]]
  /\ aged' = [aged EXCEPT ![r] = behind[r]]
  /\ UNCHANGED <<folder, cached, reported, behind, writes>>

\* The answer is given, or the request is aborted: its tools change nothing more.
EndRequest(r) ==
  /\ phase[r] # "new" /\ phase[r] # "done"
  /\ phase' = [phase EXCEPT ![r] = "done"]
  /\ cached' = [cached EXCEPT ![r] = <<>>] /\ offered' = [offered EXCEPT ![r] = <<>>]
  /\ behind' = [behind EXCEPT ![r] = {}] /\ aged' = [aged EXCEPT ![r] = {}]
  /\ UNCHANGED <<folder, reported, writes>>

Alive == {q \in Reqs : phase[q] \in {"made", "open"}}

\* Directory d changes to `now` by a tool of r, which tells of it.
Change(r, d, now, tells) ==
  /\ phase[r] = "open" /\ writes < MaxWrites
  /\ folder' = IF now = Gone THEN [e \in DOMAIN folder \ {d} |-> folder[e]]
               ELSE [e \in DOMAIN folder \cup {d} |-> IF e = d THEN now ELSE folder[e]]
  /\ reported' = [reported EXCEPT ![d] = tells]
  /\ aged' = [q \in Reqs |-> IF q \in Alive THEN aged[q] \cup {d} ELSE {}]
  /\ writes' = writes + 1
  /\ UNCHANGED <<phase, offered>>

\* Mutant: an operation leaves the cache alone.
MutRefreshed(r, d) ==
  /\ cached' = cached
  /\ behind' = [q \in Reqs |-> IF q \in Alive \ {r} THEN behind[q] \cup {d} ELSE {}]
Refreshed(r, d) ==
  /\ cached' = [cached EXCEPT ![r] = Loaded(folder')]
  /\ behind' = [q \in Reqs |-> IF q \in Alive \ {r} THEN behind[q] \cup {d} ELSE {}]

NotRefreshed(d) ==
  /\ behind' = [q \in Reqs |-> IF q \in Alive THEN behind[q] \cup {d} ELSE {}]
  /\ UNCHANGED cached

MayWrite(d, overwrite) == d \notin DOMAIN folder \/ overwrite

\* dive_install_skill_from_path from a directory elsewhere, or from another skill's.
Install(r, d, content, overwrite) ==
  /\ MayWrite(d, overwrite)
  /\ Change(r, d, content, content)
  /\ Refreshed(r, d)

\* Installing a skill over itself removes it before it is copied.
InstallItself(r, d) ==
  /\ d \in DOMAIN folder
  /\ Change(r, d, Gone, Unknown)
  /\ NotRefreshed(d)

\* dive_create_skill: the directory has the name of the skill.
Create(r, n, body, overwrite) ==
  /\ MayWrite(n, overwrite)
  /\ Change(r, n, [name |-> n, body |-> body], [name |-> n, body |-> body])
  /\ Refreshed(r, n)

\* dive_uninstall_skill
Uninstall(r, d) ==
  /\ d \in DOMAIN folder
  /\ Change(r, d, Gone, Gone)
  /\ Refreshed(r, d)

\* An OSError of rmtree, mkdir, copytree or write_text, reported as an error.
WriteFails(r, d, content) ==
  /\ \E left \in {content, Broken, Gone} \cup {folder[e] : e \in {d} \cap DOMAIN folder} :
       Change(r, d, left, Unknown)
  /\ NotRefreshed(d)

SkillNext ==
  \E r \in Reqs :
    \/ MakeManager(r) \/ GetTools(r) \/ EndRequest(r)
    \/ \E d \in Dirs :
         \/ \E content \in Contents, overwrite \in BOOLEAN : Install(r, d, content, overwrite)
         \/ \E body \in Bodies, overwrite \in BOOLEAN : Create(r, d, body, overwrite)
         \/ InstallItself(r, d) \/ Uninstall(r, d)
         \/ \E content \in Contents : WriteFails(r, d, content)

---------------------------------------------------------------------------
(* Properties.                                                            *)

\* What dive_list_skills, dive_search_skills and dive_skill_info tell of.
Listed(r) == cached[r]
\* What dive_skill tells of.
Readable(r) == offered[r]
\* GET /skills makes a manager of its own.
Page == Loaded(folder)

Before(d, e) == \E i, j \in DOMAIN Sorted : i < j /\ Sorted[i] = d /\ Sorted[j] = e

\* `shown` agrees with what was reported of every directory outside `changed`.
AsReported(shown, changed) ==
  \A d \in Dirs \ changed : reported[d] # Unknown =>
    /\ \A n \in DOMAIN shown : shown[n].dir = d =>
         reported[d] = [name |-> n, body |-> shown[n].body]
    /\ reported[d] \notin {Broken, Gone} =>
         LET n == reported[d].name
         IN n \in DOMAIN shown /\ (shown[n].dir = d \/ Before(d, shown[n].dir))

\* What a request lists, searches and describes, and the skills page, agree with what
\* the last successful operation on each directory reported, by whichever request,
\* but for directories that others changed, or that failed, since the request's own
\* last operation; dive_skill agrees with it as of the start of the request; and no
\* skill it reads is longer than the limit (refresh, get_tools).
SkillsTrue ==
  /\ AsReported(Page, {})
  /\ \A r \in Alive : AsReported(Listed(r), behind[r])
  /\ \A r \in Alive : phase[r] = "open" =>
       /\ AsReported(Readable(r), aged[r])
       /\ \A n \in DOMAIN Readable(r) : ReadLength(Readable(r)[n].body) <= MAX_SKILL_CONTENT_LENGTH
=============================================================================
