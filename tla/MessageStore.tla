---------------------------- MODULE MessageStore ----------------------------
(***************************************************************************)
(* The message store of SQLite with its full-text index, and the routes    *)
(* that rename, star, delete, purge and search chats: BaseMessageStore,    *)
(* SQLiteMessageStore and the triggers of the migration that adds the      *)
(* table message_fts.  Each action is one transaction.                     *)
(*                                                                         *)
(* The index is kept by triggers on messages and on the update and the     *)
(* deletion of a chat.  Foreign keys are declared but not enforced, so the *)
(* messages of a deleted chat stay, and are its messages again if a chat   *)
(* of the same id is made.  Texts are short sequences of letters; files,   *)
(* tool calls and token usage are left out, and there is one user.         *)
(***************************************************************************)
EXTENDS Integers, Sequences, FiniteSets, SequencesExt, FiniteSetsExt

CONSTANTS
  Chats, Keys,     \* ids of chats, and of messages
  Letters,
  Texts, Titles,   \* sequences of letters; Titles are those generated or given
  Queries,         \* sequences of letters to search for
  Malformed,       \* queries that FTS5 cannot parse
  InId,            \* pairs of a chat and a query that is part of its id
  MaxLength,       \* max_length of a snippet
  MaxPatch, MaxRemoval

VARIABLES
  chats,      \* rows of chats: id to title
  messages,       \* rows of messages by created_at: [row, key, chat, role, text]
  fts,        \* rows of message_fts: [row, chat, title, text]
  titling,    \* chats whose title is being generated
  purging,    \* ids a purge has read
  reborn,     \* history: chats made over messages of a deleted one, not patched since
  patches, removals

storeVars == <<chats, messages, fts, titling, purging, reborn, patches, removals>>

NewChat == <<"n">>
NoTitle == <<>>
MIN_TRIGRAM_LENGTH == 3

ASSUME LettersAssumption == Texts \cup Titles \cup Queries \cup {NewChat} \subseteq Seq(Letters)
ASSUME LengthAssumption == MaxLength \in Nat

StoreInit ==
  /\ chats = <<>> /\ messages = <<>> /\ fts = {}
  /\ titling = {} /\ purging = {} /\ reborn = {}
  /\ patches = 0 /\ removals = 0

Known == DOMAIN chats
\* The n-th of some positions, and what a sequence has at them, in their order.
Nth(K, n) == CHOOSE k \in K : Cardinality({j \in K : j <= k}) = n
Pick(s, K) == [n \in 1..Cardinality(K) |-> s[Nth(K, n)]]
KeysOf(s) == {s[i].key : i \in DOMAIN s}
\* SQLite gives a new row the highest rowid in use and one more.
NextRow(s) == 1 + Max({0} \cup {s[i].row : i \in DOMAIN s})
NewRow(s, k, c, r, t) == [row |-> NextRow(s), key |-> k, chat |-> c, role |-> r, text |-> t]
Indexed(m, title) == [row |-> m.row, chat |-> m.chat, title |-> title, text |-> m.text]

\* message_ai, message_au: a row whose chat has no row of its own is not indexed.
AfterWrite(index, m, known) ==
  {f \in index : f.row # m.row}
    \cup (IF m.chat \in DOMAIN known THEN {Indexed(m, known[m.chat])} ELSE {})
\* message_ad
AfterCut(index, s) == {f \in index : \E i \in DOMAIN s : s[i].row = f.row}
\* Mutant: the messages keep the title they were indexed with.
MutAfterPatch(index, s, c, title) == index
\* chat_au
AfterPatch(index, s, c, title) ==
  {f \in index : f.chat # c} \cup {Indexed(m, title) : m \in {n \in Range(s) : n.chat = c}}
\* chat_bd
AfterDelete(index, gone) == {f \in index : f.chat \notin gone}

---------------------------------------------------------------------------
(* Transactions.                                                          *)

\* delete_messages_after: those of the chat that are later than message k of it.
Kept(c, k) ==
  LET at == CHOOSE i \in DOMAIN messages : messages[i].key = k
  IN IF \E i \in DOMAIN messages : messages[i].chat = c /\ messages[i].key = k
       THEN {i \in DOMAIN messages : messages[i].chat # c \/ i <= at}
       ELSE DOMAIN messages
Cut(c, k) == Pick(messages, Kept(c, k))

\* handle_chat with a question for a chat without a row: create_chat and
\* create_message, and a title is generated meanwhile.
AskNew(c, k, t) ==
  LET m == NewRow(messages, k, c, "user", t)
  IN /\ c \notin Known /\ k \notin KeysOf(messages)
     /\ chats' = [d \in Known \cup {c} |-> IF d = c THEN NewChat ELSE chats[d]]
     /\ messages' = Append(messages, m)
     /\ fts' = AfterWrite(fts, m, chats')
     /\ titling' = titling \cup {c}
     /\ reborn' = IF \E i \in DOMAIN messages : messages[i].chat = c THEN reborn \cup {c} ELSE reborn
     /\ UNCHANGED <<purging, patches, removals>>

\* A question for a chat there is.
AskMore(c, k, t) ==
  LET m == NewRow(messages, k, c, "user", t)
  IN /\ c \in Known /\ k \notin KeysOf(messages)
     /\ messages' = Append(messages, m)
     /\ fts' = AfterWrite(fts, m, chats)
     /\ UNCHANGED <<chats, titling, purging, reborn, patches, removals>>

\* The edit of a question: what follows it goes, lock_msg finds it, and
\* update_message_content replaces its text.
AskAgain(c, k, t) ==
  LET left == Cut(c, k)
      at == CHOOSE i \in DOMAIN left : left[i].key = k
      edited == [left EXCEPT ![at].text = t]
  IN /\ c \in Known
     /\ \E i \in DOMAIN messages : messages[i].key = k /\ messages[i].chat = c
     /\ messages' = edited
     /\ fts' = AfterWrite(AfterCut(fts, left), edited[at], chats)
     /\ UNCHANGED <<chats, titling, purging, reborn, patches, removals>>

\* patch_chat changes nothing of a chat that is gone.
Patched(c, title) == IF c \in Known THEN [chats EXCEPT ![c] = title] ELSE chats

\* The answer of a turn, or the placeholder of a failed one; its chat may be gone.
\* The generated title is written in the same transaction, before the answer.
Answered(c, k, t, title) ==
  LET m == NewRow(messages, k, c, "assistant", t)
      index == IF title = NoTitle \/ c \notin Known THEN fts
               ELSE AfterPatch(fts, messages, c, title)
  IN /\ k \notin KeysOf(messages)
     /\ \E i \in DOMAIN messages : messages[i].chat = c
     /\ IF title = NoTitle THEN UNCHANGED <<chats, titling, reborn>>
        ELSE /\ c \in titling
             /\ chats' = Patched(c, title)
             /\ titling' = titling \ {c}
             /\ reborn' = IF c \in Known THEN reborn \ {c} ELSE reborn
     /\ messages' = Append(messages, m)
     /\ fts' = AfterWrite(index, m, chats')
     /\ UNCHANGED <<purging, patches, removals>>

\* PATCH /chat/{id} with a title.
Rename(c, title) ==
  /\ patches < MaxPatch /\ c \in Known
  /\ chats' = Patched(c, title)
  /\ fts' = AfterPatch(fts, messages, c, title)
  /\ reborn' = reborn \ {c}
  /\ patches' = patches + 1
  /\ UNCHANGED <<messages, titling, purging, removals>>

\* PATCH /chat/{id} with a star alone is an update of the row all the same.
Star(c) ==
  /\ c \in Known
  /\ Rename(c, chats[c])

\* bulk_delete of any ids, and delete_chat of one.
Removed(ids) ==
  /\ chats' = [c \in Known \ ids |-> chats[c]]
  /\ fts' = AfterDelete(fts, ids \cap Known)
  /\ reborn' = reborn \ ids

Delete(ids) ==
  /\ removals < MaxRemoval
  /\ Removed(ids)
  /\ removals' = removals + 1
  /\ UNCHANGED <<messages, titling, purging, patches>>

\* DELETE /chat/purge reads the chats and removals those it has read.
PurgeRead ==
  /\ removals < MaxRemoval /\ purging = {} /\ Known # {}
  /\ purging' = Known
  /\ removals' = removals + 1
  /\ UNCHANGED <<chats, messages, fts, titling, reborn, patches>>

Purge ==
  /\ purging # {}
  /\ Removed(purging)
  /\ purging' = {}
  /\ UNCHANGED <<messages, titling, patches, removals>>

StoreNext ==
  \/ \E c \in Chats, k \in Keys, t \in Texts :
       \/ AskNew(c, k, t) \/ AskMore(c, k, t) \/ AskAgain(c, k, t)
       \/ \E title \in Titles \cup {NoTitle} : Answered(c, k, t, title)
  \/ \E c \in Chats : (\E title \in Titles : Rename(c, title)) \/ Star(c)
  \/ \E ids \in SUBSET Chats \ {{}} : Delete(ids)
  \/ PurgeRead \/ Purge

---------------------------------------------------------------------------
(* POST /chat/search.                                                     *)

At(s, q) == {i \in 1..(Len(s) - Len(q) + 1) : SubSeq(s, i, i + Len(q) - 1) = q}
Has(s, q) == At(s, q) # {}

\* _like_query_search: rows of messages whose text has the query, or the title of
\* their chat.
LikeHit(m, q) == m.chat \in Known /\ (Has(m.text, q) \/ Has(chats[m.chat], q))
\* full_text_search: the index holds the id of the chat as a column, too.
FtsHit(m, q) ==
  /\ m.chat \in Known
  /\ \E f \in fts :
       f.row = m.row /\ (Has(f.text, q) \/ Has(f.title, q) \/ <<f.chat, q>> \in InId)
UsesLike(q) == Len(q) < MIN_TRIGRAM_LENGTH \/ q \in Malformed
Hits(q) == {i \in DOMAIN messages : IF UsesLike(q) THEN LikeHit(messages[i], q) ELSE FtsHit(messages[i], q)}

LastOf(c) == Max({i \in DOMAIN messages : messages[i].chat = c})
\* The chats of the hits, the one with the latest message first, each with its
\* oldest hit.
Search(q) ==
  LET lasts == {LastOf(messages[i].chat) : i \in Hits(q)}
      order == Reverse(Pick(messages, lasts))
  IN [n \in DOMAIN order |-> Min({i \in Hits(q) : messages[i].chat = order[n].chat})]

\* _build_snippet: the window of at most MaxLength letters around the first match.
Snippet(s, q) ==
  LET pos == IF Has(s, q) THEN Min(At(s, q)) - 1 ELSE 0
      start == Max({0, pos - (MaxLength \div 2)})
      end == Min({Len(s), start + MaxLength})
  IN SubSeq(s, Max({0, end - MaxLength}) + 1, end)

---------------------------------------------------------------------------
(* Properties.                                                            *)

\* A search finds a chat just when its title or a message the user can see in it
\* has the text, whatever was asked again, renamed, deleted and made again, unless
\* the messages are older than the row of their chat; and a match that fits half
\* of the snippet is in it.  (A longer query also finds the chats whose id it is
\* part of.)
SearchTrue ==
  \A q \in Queries :
    LET found == {messages[i].chat : i \in Range(Search(q))}
        visible == {messages[i].chat : i \in {j \in DOMAIN messages : LikeHit(messages[j], q)}}
        byId == IF UsesLike(q) THEN {} ELSE {c \in Known : <<c, q>> \in InId}
    IN /\ found \subseteq visible \cup byId
       /\ visible \ found \subseteq reborn
       /\ \A i \in Range(Search(q)) :
            /\ messages[i].chat \in byId \/ Has(messages[i].text, q) \/ Has(chats[messages[i].chat], q)
            /\ UsesLike(q) /\ Has(messages[i].text, q) /\ 2 * Len(q) <= MaxLength
                 => Has(Snippet(messages[i].text, q), q)
=============================================================================
