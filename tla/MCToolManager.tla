--------------------------- MODULE MCToolManager ---------------------------
(***************************************************************************)
(* What the host offers to a model, for TLC: the servers whose tools it    *)
(* has (ToolManager), the list of them (ToolList), and the skills          *)
(* (SkillStore).  Every behaviour is of one of them; `served` says which.  *)
(***************************************************************************)
EXTENDS ToolManager, TLC

CONSTANTS n1, n2, x1, x2, o0, o1, v1, v2,
          Lists, Tools, Idle, Invalid, MaxChanges,
          Reqs, Sorted, Bodies, Broken, Gone, Unknown, HeaderLength, SuffixLength,
          MAX_SKILL_CONTENT_LENGTH, MaxWrites

VARIABLES served,
          settings, active, cacheFile, readAt, answer, changes,
          folder, phase, cached, offered, reported, behind, aged, writes

List   == INSTANCE ToolList WITH Servers <- Names
Skills == INSTANCE SkillStore

\* Directories in the order of their names.
DirsInOrder == <<n1, n2>>

\* A name, its header and its suffix leave room for the text of a skill.
ASSUME SkillsAssumption ==
  /\ Sorted \in Seq(Range(Sorted)) /\ Bodies \subseteq Nat
  /\ HeaderLength \in Nat /\ SuffixLength \in Nat /\ MAX_SKILL_CONTENT_LENGTH \in Nat
  /\ HeaderLength + SuffixLength <= MAX_SKILL_CONTENT_LENGTH

listVars  == <<settings, active, cacheFile, readAt, answer, changes>>
skillVars == <<folder, phase, cached, offered, reported, behind, aged, writes>>

AllInit ==
  /\ served \in {"servers", "list", "skills"}
  /\ Init /\ List!ListInit /\ Skills!SkillInit
  /\ served # "servers" => configs = [n \in Names |-> None]

AllNext ==
  \/ served = "servers" /\ Next /\ UNCHANGED <<served, listVars, skillVars>>
  \/ served = "list" /\ List!ListNext /\ UNCHANGED <<served, vars, skillVars>>
  \/ served = "skills" /\ Skills!SkillNext /\ UNCHANGED <<served, vars, listVars>>

\* Only the servers have fair behaviours: of the others only what holds of states and
\* of steps is asked.
AllSpec == AllInit /\ [][AllNext]_<<served, vars, listVars, skillVars>> /\ Fairness

---------------------------------------------------------------------------
\* What a request knows of skills is what was reported of them (SkillManager).
SkillsTrue == Skills!SkillsTrue

\* What is listed of a server outlives its stops and the host's (list_tools).
ListsTrue == List!ListsTrue
=============================================================================
