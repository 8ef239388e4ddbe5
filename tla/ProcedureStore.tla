---------------------------- MODULE ProcedureStore ----------------------------
(***************************************************************************)
(* The procedures of data/procedures: filtered and cut by                  *)
(* load_approved_documents (rag/ingestion.py, rag/security.py), stored by  *)
(* scripts/ingest_procedures.py, found by search_procedures (rag/tool.py). *)
(*                                                                         *)
(* A text is the sequence of its chunks; a chunk is a model value, and one *)
(* of them carries a suspicious pattern.  Embeddings and ranking are left  *)
(* out: a search may return any of the approved chunks.                    *)
(***************************************************************************)
EXTENDS Sequences, Naturals, FiniteSets

CONSTANTS
    Names,       \* file names
    Texts,       \* what files may contain: sequences of chunks
    Suspicious,  \* chunks with a pattern of SUSPICIOUS_PATTERNS
    MaxEdits,    \* bounds the edits
    Nil

VARIABLES
    files,      \* the directory: a text per name, or Nil
    ingestion,  \* the running one, or Nil: names it has still to read and
                \* the documents it has cut
    store,      \* the collection
    read,       \* history: the texts that ingestions have read, with their name
    fresh,      \* history: what the store is worth, against the files
    edits

procedureVars == <<files, ingestion, store, read, fresh, edits>>

ProcedureInit ==
    /\ files \in [Names -> Texts]
    /\ ingestion = Nil /\ store = {}
    /\ read = {} /\ fresh = "no" /\ edits = 0

\* Somebody changes, adds or removes a procedure.
Edit(name) ==
    /\ edits < MaxEdits
    /\ edits' = edits + 1
    /\ \E text \in (Texts \union {Nil}) \ {files[name]} :
          files' = [files EXCEPT ![name] = text]
    /\ fresh' = "no"
    /\ UNCHANGED <<ingestion, store, read>>

\* Mutant: the filter looks at each chunk on its own.
detect_in_chunk(text, i) == text[i] \in Suspicious

\* The whole file is quarantined, whatever the chunk the pattern is in.
detect_prompt_injection(text, i) == \E j \in DOMAIN text : text[j] \in Suspicious

\* Mutant: the name of the file is not part of the identifier.
ContentId(name, i, chunk) == <<i, chunk>>

\* SHA-256 of name, version, index and content, taken to be injective.
Identifier(name, i, chunk) == <<name, i, chunk>>

Document(name, i, chunk) ==
    [id |-> Identifier(name, i, chunk), source |-> name, chunk_index |-> i,
     page_content |-> chunk, approved |-> TRUE]

approved_documents(name, text) ==
    {Document(name, i, text[i]) : i \in {j \in DOMAIN text : ~ detect_prompt_injection(text, j)}}

Present == {name \in Names : files[name] # Nil}

StartIngestion ==
    /\ ingestion = Nil
    /\ ingestion' = [unread |-> Present, loaded |-> {}]
    /\ fresh' = "reading"
    /\ UNCHANGED <<files, store, read, edits>>

\* A document replaces the one that has its identifier.
Replacing(old, new) == {d \in old : \A e \in new : d.id # e.id} \union new

\* The files that the directory had are read one after the other.
ReadFile(name) ==
    /\ ingestion # Nil /\ name \in ingestion.unread \intersect Present
    /\ ingestion' = [unread |-> ingestion.unread \ {name},
                     loaded |-> Replacing(ingestion.loaded,
                                          approved_documents(name, files[name]))]
    /\ read' = read \union {[name |-> name, text |-> files[name]]}
    /\ UNCHANGED <<files, store, fresh, edits>>

\* A file was removed in between: the ingestion raises.
FileGone == ingestion # Nil /\ ingestion.unread \ Present # {}

AllRead == ingestion # Nil /\ ingestion.unread = {}

\* aadd_documents: all documents are embedded, then inserted or updated by
\* identifier in one transaction.
AddDocuments ==
    /\ AllRead
    /\ store' = Replacing(store, ingestion.loaded)
    /\ ingestion' = Nil
    /\ fresh' = IF fresh = "reading" THEN "yes" ELSE "no"
    /\ UNCHANGED <<files, read, edits>>

AbandonIngestion ==
    /\ ingestion' = Nil
    /\ fresh' = IF fresh = "reading" THEN "no" ELSE fresh
    /\ UNCHANGED <<files, store, read, edits>>

\* search_procedures: at most four of these.
Found == {d \in store : d.approved}

-----------------------------------------------------------------------------
(* Properties *)

\* A chunk the agent can find was read in a text of its source that had no
\* suspicious pattern anywhere, not even in another chunk: no part of a
\* quarantined text is ever found (rag/ingestion.py:27-30).
QuarantinedTextsAreNotFound ==
    \A d \in Found : \E r \in read :
       /\ r.name = d.source
       /\ d.chunk_index \in DOMAIN r.text
       /\ r.text[d.chunk_index] = d.page_content
       /\ \A i \in DOMAIN r.text : r.text[i] \notin Suspicious

\* Once an ingestion has succeeded and as long as files are not edited again,
\* every clean procedure can be found whole and under its own name: files that
\* share text do not replace each other (rag/ingestion.py:33-42).
ProceduresAreFound ==
    \A name \in Present :
       fresh = "yes" /\ (\A i \in DOMAIN files[name] : files[name][i] \notin Suspicious) =>
       \A i \in DOMAIN files[name] :
          \E d \in Found : /\ d.source = name /\ d.chunk_index = i
                           /\ d.page_content = files[name][i]
=============================================================================
