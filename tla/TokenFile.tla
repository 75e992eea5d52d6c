------------------------------ MODULE TokenFile ------------------------------
(***************************************************************************)
(* keys/register_tokens.txt and keys/registered_clients.txt: the files     *)
(* that vpn_server (which consumes a one-time token when a client          *)
(* registers), admin_server (which appends and deletes tokens) and the     *)
(* command line generators (vpn_server --gen-token, applyToken) share.     *)
(* They agree on flock(<tokens>.lock); a removal is read, write a          *)
(* temporary file, rename.  The order of the lines is abstracted.          *)
(***************************************************************************)
EXTENDS Naturals, FiniteSets

CONSTANTS MaxTokens,    \* bound: tokens ever generated
          Threads,      \* threads of vpn_server that run handle_identity
          Admin         \* the process admin_server

Free == "free"
TokenFileAssumption == /\ MaxTokens \in Nat
                       /\ IsFiniteSet(Threads)
                       /\ Admin \notin Threads
                       /\ Free \notin Threads \cup {Admin}
ASSUME TokenFileAssumption

VARIABLES
    tokens,      \* the lines of register_tokens.txt
    lock,        \* the holder of flock(<tokens>.lock), or Free
    mutex,       \* the holder of g_keys_db_mutex, or Free
    job,         \* job[p]: the removal process p is in the middle of
    minted,      \* number of tokens generated: they are 1 .. minted
    revoked,     \* history: tokens admin_server answered it had deleted
    spent,       \* history: tokens vpn_server took out of the file
    admitted     \* history: <<token, thread>> of every line in registered_clients.txt

fileVars == <<tokens, lock, mutex, job, minted, revoked, spent, admitted>>

Procs == Threads \cup {Admin}
Idle == [pc |-> "idle", tok |-> 0, keep |-> {}]

FileTypeOK ==
    /\ tokens \subseteq 1 .. MaxTokens
    /\ lock \in Procs \cup {Free}
    /\ mutex \in Threads \cup {Free}
    /\ job \in [Procs -> [pc: {"idle", "replace", "register"}, tok: 0 .. MaxTokens,
                          keep: SUBSET (1 .. MaxTokens)]]
    /\ minted \in 0 .. MaxTokens
    /\ revoked \subseteq 1 .. MaxTokens
    /\ spent \subseteq 1 .. MaxTokens
    /\ admitted \subseteq (1 .. MaxTokens) \X Threads

FileInit ==
    /\ tokens = {}
    /\ lock = Free
    /\ mutex = Free
    /\ job = [p \in Procs |-> Idle]
    /\ minted = 0
    /\ revoked = {}
    /\ spent = {}
    /\ admitted = {}

-----------------------------------------------------------------------------
(* Taking <tokens>.lock: flock(LOCK_EX) waits while another process has it. *)
LockFree == lock = Free

(* appendTokens, --gen-token and applyToken: under the lock, n fresh tokens *)
(* are added to the end of the file.                                        *)
AppendTokens(n) ==
    /\ LockFree
    /\ minted + n <= MaxTokens
    /\ minted' = minted + n
    /\ tokens' = tokens \cup ((minted + 1) .. (minted + n))
    /\ UNCHANGED <<lock, mutex, job, revoked, spent, admitted>>

(* Mutant: the removal does not wait for the lock.                          *)
ReadAllButUnlocked(p, t) ==
    /\ t \in tokens
    /\ lock' = p
    /\ job' = [job EXCEPT ![p] = [pc |-> "replace", tok |-> t, keep |-> tokens \ {t}]]

(* The first half of removeToken and file_remove_line: under the lock, the  *)
(* whole file is read and every line but the token's is kept in memory.     *)
ReadAllBut(p, t) ==
    /\ LockFree
    /\ t \in tokens
    /\ lock' = p
    /\ job' = [job EXCEPT ![p] = [pc |-> "replace", tok |-> t, keep |-> tokens \ {t}]]

(* Mutant: the result of the rename is not looked at.                       *)
RenameKeptUnchecked(p) ==
    /\ job[p].pc = "replace"
    /\ tokens' \in {job[p].keep, tokens}
    /\ lock' = Free

(* The second half: the kept lines go to <tokens>.tmp.<pid>, which replaces *)
(* the file in one rename; then the lock is released.                       *)
RenameKept(p) ==
    /\ job[p].pc = "replace"
    /\ tokens' = job[p].keep
    /\ lock' = Free

(* The temporary file cannot be written or renamed: it is unlinked and the  *)
(* token file is left as it was.                                            *)
ReplaceFails(p) ==
    /\ job[p].pc = "replace"
    /\ lock' = Free
    /\ job' = [job EXCEPT ![p] = Idle]

-----------------------------------------------------------------------------
(* vpn_server --gen-token and ServerAdmin::applyToken.                      *)
GenToken == \E n \in 1 .. MaxTokens : AppendTokens(n)

(* The registration branch of handle_identity on one thread of vpn_server:  *)
(* both steps run under g_keys_db_mutex.                                    *)
RegisterBegin(th) ==
    /\ mutex = Free
    /\ job[th].pc = "idle"
    /\ \E t \in tokens : ReadAllBut(th, t)
    /\ mutex' = th
    /\ UNCHANGED <<tokens, minted, revoked, spent, admitted>>

RegisterBurn(th) ==
    /\ RenameKept(th)
    /\ spent' = spent \cup {job[th].tok}
    /\ job' = [job EXCEPT ![th].pc = "register", ![th].keep = {}]
    /\ UNCHANGED <<mutex, minted, revoked, admitted>>

RegisterFails(th) ==
    /\ ReplaceFails(th)
    /\ mutex' = Free
    /\ UNCHANGED <<tokens, minted, revoked, spent, admitted>>

(* file_append_line adds the key of the client, or the line is not written: *)
(* the file cannot be opened and the client is denied, or the flush, which  *)
(* is not looked at, loses the line (whether the client is then let in is   *)
(* Handshake's).  The token is gone either way.                             *)
RegisterAdd(th) ==
    /\ job[th].pc = "register"
    /\ admitted' \in {admitted, admitted \cup {<<job[th].tok, th>>}}
    /\ job' = [job EXCEPT ![th] = Idle]
    /\ mutex' = Free
    /\ UNCHANGED <<tokens, lock, minted, revoked, spent>>

(* The kernel releases the locks of a process that dies; the temporary file *)
(* it leaves behind is never read.                                          *)
VpnServerDies ==
    /\ \E th \in Threads : job[th].pc # "idle"
    /\ job' = [p \in Procs |-> IF p \in Threads THEN Idle ELSE job[p]]
    /\ lock' = IF lock \in Threads THEN Free ELSE lock
    /\ mutex' = Free
    /\ UNCHANGED <<tokens, minted, revoked, spent, admitted>>

(* The removal of removeToken in admin_server.                              *)
DeleteBegin(t) ==
    /\ job[Admin].pc = "idle"
    /\ ReadAllBut(Admin, t)
    /\ UNCHANGED <<tokens, mutex, minted, revoked, spent, admitted>>

DeleteEnd ==
    /\ RenameKept(Admin)
    /\ revoked' = revoked \cup {job[Admin].tok}
    /\ job' = [job EXCEPT ![Admin] = Idle]
    /\ UNCHANGED <<mutex, minted, spent, admitted>>

DeleteFails ==
    /\ ReplaceFails(Admin)
    /\ UNCHANGED <<tokens, mutex, minted, revoked, spent, admitted>>

(* admin_server dies, perhaps between the read and the rename.              *)
AdminServerDies ==
    /\ job' = [job EXCEPT ![Admin] = Idle]
    /\ lock' = IF lock = Admin THEN Free ELSE lock
    /\ UNCHANGED <<tokens, mutex, minted, revoked, spent, admitted>>

Enrol == \E th \in Threads : RegisterBegin(th)

Registration ==
    \/ \E th \in Threads : \/ RegisterBurn(th)
                           \/ RegisterFails(th)
                           \/ RegisterAdd(th)
    \/ VpnServerDies

FileNext ==
    \/ GenToken
    \/ Enrol
    \/ Registration
    \/ \E t \in 1 .. MaxTokens : DeleteBegin(t)
    \/ DeleteEnd
    \/ DeleteFails
    \/ AdminServerDies

FileSpec == FileInit /\ [][FileNext]_fileVars

-----------------------------------------------------------------------------
(* No update of the file is lost: a generated token stays in the file until *)
(* someone removes it, whatever append runs between the read and the rename *)
(* of a removal (UDP.cpp with_token_lock, AdminServer.cpp FileLock).        *)
TokensAreKept == (1 .. minted) \ (spent \cup revoked) = tokens

(* A token admits one client: no token that was used to register is used    *)
(* again, nor one the administrator was told is deleted.                    *)
OneAdmissionPerToken ==
    /\ spent \cap revoked = {}
    /\ \A a, b \in admitted : a[1] = b[1] => a = b
    /\ \A a \in admitted : a[1] \in spent
=============================================================================
