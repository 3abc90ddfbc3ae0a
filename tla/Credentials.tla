------------------------------ MODULE Credentials ------------------------------
(***************************************************************************)
(* With which credential a plugin is pulled (crates/forge-cli: oci.rs,     *)
(* resolve_auth, and docker_auth.rs): a GitHub token for ghcr.io, else     *)
(* what the credential files of Docker and podman and their helpers hold   *)
(* for the registry, else none.                                            *)
(*                                                                         *)
(* A registry, and a key of a credential file, is [url, host, path]: is it *)
(* written as a URL, its host with the port, has it a path?  A registry is *)
(* a bare host.  The environment is a record of tokens and of variables    *)
(* that are set; the disk maps places to files.                            *)
(***************************************************************************)
EXTENDS Naturals, Sequences, SequencesExt

CONSTANT Ghcr  (* the host ghcr.io *)

(* What asking a source may come to. *)
None == [kind |-> "none"]
Failed == [kind |-> "error"]
Cred(secret) == [kind |-> "cred", secret |-> secret]
IsCred(outcome) == outcome.kind = "cred"

(* A helper is what its process does: does it start, take the registry from *)
(* its input, and succeed, "miss" with "credentials not found" or fail, and *)
(* is its reply well formed?                                                *)

(* Mutant: a helper that fails counts as one that has nothing. *)
RunHelperQuietly(h, registry) ==
  IF h.exit = "ok" /\ h.reads /\ h.reply THEN Cred([host |-> registry.host]) ELSE None

(* run_helper; what the helper says of itself goes before a broken pipe. *)
RunHelper(h, registry) ==
  CASE ~h.starts                    -> Failed
    [] h.starts /\ h.exit = "miss"  -> None
    [] h.starts /\ h.exit = "fails" -> Failed
    [] h.starts /\ h.exit = "ok"    ->
         IF h.reads /\ h.reply THEN Cred([host |-> registry.host]) ELSE Failed

(* credential_from_entry, decode_auth: an entry has an encoded pair that    *)
(* may be bad, or a pair in the clear, or neither.                          *)
FromEntry(entry) ==
  CASE entry.auth = "bad"                    -> Failed
    [] entry.auth = "good"                   -> Cred(entry.secret)
    [] entry.auth = "absent" /\ entry.clear  -> Cred(entry.secret)
    [] entry.auth = "absent" /\ ~entry.clear -> None

(* key_host: a key without a scheme is taken whole. *)
KeyHost(key) == IF key.url THEN [key EXCEPT !.url = FALSE, !.path = FALSE] ELSE key

(* lookup: the exact key, else any key of that host, in no order. *)
Lookup(map, registry) ==
  IF registry \in DOMAIN map THEN {registry}
  ELSE {k \in DOMAIN map : KeyHost(k) = registry}

(* credential_from_config.  The store is <<>> or <<helper>>. *)
Store(file, registry) ==
  IF file.store = <<>> THEN None ELSE RunHelper(file.store[1], registry)

FromConfig(file, registry) ==
  LET helpers == Lookup(file.helpers, registry)
      entries == Lookup(file.auths, registry)
  IN IF helpers # {} THEN {RunHelper(file.helpers[k], registry) : k \in helpers}
     ELSE IF entries = {} THEN {Store(file, registry)}
     ELSE {LET o == FromEntry(file.auths[k])
           IN IF o = None THEN Store(file, registry) ELSE o : k \in entries}

(* credential_from_path. *)
FromPath(file, registry) ==
  CASE file.state = "absent"                   -> {None}
    [] file.state \in {"unreadable", "broken"} -> {Failed}
    [] file.state = "parsed"                   -> FromConfig(file, registry)

(* Mutant: the walk ends at the first file that fails. *)
WalkStops(outcomes) ==
  LET decisive == {i \in DOMAIN outcomes : outcomes[i] # None}
  IN IF decisive = {} THEN None ELSE outcomes[Min(decisive)]

(* The loop of credential: an error is held back for want of a credential. *)
Walk(outcomes) ==
  LET found == {i \in DOMAIN outcomes : IsCred(outcomes[i])}
      failed == \E i \in DOMAIN outcomes : outcomes[i] = Failed
  IN CASE found # {}            -> outcomes[Min(found)]
       [] found = {} /\ failed  -> Failed
       [] found = {} /\ ~failed -> None

(* config_paths: $DOCKER_CONFIG takes the place of Docker's own directory.  *)
ConfigPaths(env) ==
  LET path(variable, place) == IF variable \in env.set THEN <<place>> ELSE <<>>
  IN (IF "DOCKER_CONFIG" \in env.set THEN <<"DOCKER_CONFIG">> ELSE path("HOME", "~/.docker"))
     \o path("REGISTRY_AUTH_FILE", "REGISTRY_AUTH_FILE")
     \o path("XDG_RUNTIME_DIR", "XDG_RUNTIME_DIR")
     \o path("HOME", "~/.config")

Credential(files, registry) ==
  LET all == UNION {FromPath(files[i], registry) : i \in DOMAIN files}
      read == {w \in [DOMAIN files -> all] : \A i \in DOMAIN files : w[i] \in FromPath(files[i], registry)}
  IN {Walk(w) : w \in read}

(* Mutant: a GitHub token is good for every registry. *)
GhcrTokenAnywhere(env, registry) ==
  LET tokens == {env.ghToken, env.githubToken, env.gh} \ {"unset", ""}
  IN IF tokens = {} THEN None ELSE Cred([host |-> Ghcr])

(* ghcr_token, first_token: the first of GH_TOKEN, GITHUB_TOKEN and what    *)
(* `gh auth token` prints that is not blank.                                *)
GhcrToken(env, registry) ==
  LET tokens == {env.ghToken, env.githubToken, env.gh} \ {"unset", ""}
  IN IF registry.host # Ghcr \/ tokens = {} THEN None ELSE Cred([host |-> Ghcr])

(* resolve_auth, docker_config_auth: what cannot be had is done without;    *)
(* Failed means that the user is warned.                                    *)
ResolveAuth(env, disk, registry) ==
  LET paths == ConfigPaths(env)
      token == GhcrToken(env, registry)
  IN IF IsCred(token) THEN {token}
     ELSE Credential([i \in DOMAIN paths |-> disk[paths[i]]], registry)

-----------------------------------------------------------------------------
(* What the search is for. *)

(* A source for the registry that cannot say what it has.                   *)
Ailing(file, registry) ==
  \/ file.state \in {"unreadable", "broken"}
  \/ /\ file.state = "parsed" /\ registry \in DOMAIN file.helpers
     /\ LET h == file.helpers[registry]
        IN ~h.starts \/ h.exit = "fails" \/ (h.exit = "ok" /\ ~(h.reads /\ h.reply))

(* A plugin is pulled with a credential of its own registry whenever some   *)
(* file on the search path has one for it: no file before it, absent,       *)
(* broken, or with a helper that fails, hides it.  Nobody is anonymous      *)
(* without a warning while a source could not be asked.  And no registry    *)
(* gets the secret of another one.                                          *)
CredentialServes(env, disk, registry) ==
  LET all == ResolveAuth(env, disk, registry)
      consulted == {disk[p] : p \in Range(ConfigPaths(env))}
  IN /\ (\E f \in consulted : \A o \in FromPath(f, registry) : IsCred(o)) => \A o \in all : IsCred(o)
     /\ (\E f \in consulted : Ailing(f, registry)) => None \notin all
     /\ \A o \in all : IsCred(o) => o.secret.host = registry.host
================================================================================
