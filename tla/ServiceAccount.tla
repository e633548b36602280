--------------------------- MODULE ServiceAccount ---------------------------
(***************************************************************************)
(* The service account names of pkg/authentication/serviceaccount/util.go: *)
(* the username and the groups of a service account, the parsing of a      *)
(* username back into namespace and name, and the test whether a secret    *)
(* is a token of a service account.                                        *)
(*                                                                         *)
(* The properties are about what the conversions do to the text, so a      *)
(* string is a sequence: of characters where the code looks into it, of    *)
(* whole words ("system", "serviceaccount") where it does not.             *)
(***************************************************************************)
EXTENDS Integers, Sequences, FiniteSets, SequencesExt

CONSTANTS
    Chars,           \* what a namespace, a name and a username are made of
    LabelChars,      \* the characters of a DNS label (a namespace)
    SubdomainChars,  \* the characters of a DNS subdomain (an account name)
    UIDs,            \* UIDs of service accounts and pods, "" for none
    PodNames,        \* pod names, "" for none
    MaxName,         \* bound: length of a namespace and of a name
    MaxTail,         \* bound: length of a username after its prefix
    NIL

ServiceAccountUsernameSeparator == ":"
ServiceAccountUsernamePrefix    == <<"system", ":", "serviceaccount", ":">>
ServiceAccountGroupPrefix       == <<"system", ":", "serviceaccounts", ":">>
AllServiceAccountsGroup         == <<"system", ":", "serviceaccounts">>

SecretTypeServiceAccountToken == "kubernetes.io/service-account-token"
SecretTypes == {SecretTypeServiceAccountToken, "Opaque"}

ASSUME /\ ServiceAccountUsernameSeparator \in Chars \ (LabelChars \cup SubdomainChars)
       /\ LabelChars \subseteq Chars /\ SubdomainChars \subseteq Chars
       /\ "" \in UIDs /\ "" \in PodNames

Names     == BoundedSeq(Chars, MaxName)
Tails     == BoundedSeq(Chars, MaxTail)
Usernames == Tails \cup {ServiceAccountUsernamePrefix \o t : t \in Tails}

ServiceAccountInfo ==
    [Name : Names, Namespace : Names, UID : UIDs, PodName : PodNames, PodUID : UIDs]

\* api.Secret, as far as IsServiceAccountToken reads it: its type and the
\* two annotations, <<>> and "" for an annotation it does not have.
Secret == [Type : SecretTypes, name : Names, uid : UIDs]

\* api.ServiceAccount
Account == [Name : Names, UID : UIDs]

VARIABLES
    call,    \* the call made last: the function and its arguments
    result   \* what it returned

vars == <<call, result>>

-----------------------------------------------------------------------------
(* Strings.                                                                *)

\* s[len(prefix):]
TrimPrefix(s, prefix) == SubSeq(s, Len(prefix) + 1, Len(s))

\* strings.Split(s, sep)
RECURSIVE Split(_, _)
Split(s, sep) ==
    LET at == SelectInSeq(s, LAMBDA c : c = sep)
    IN IF at = 0 THEN <<s>>
       ELSE <<SubSeq(s, 1, at - 1)>> \o Split(SubSeq(s, at + 1, Len(s)), sep)

\* ValidateNamespaceName and ValidateServiceAccountName: no error for a DNS
\* label and for a DNS subdomain.
IsNamespaceName(s)      == s # <<>> /\ ToSet(s) \subseteq LabelChars
IsServiceAccountName(s) == s # <<>> /\ ToSet(s) \subseteq SubdomainChars

-----------------------------------------------------------------------------
(* The functions.                                                          *)

MakeUsername(namespace, name) ==
    ServiceAccountUsernamePrefix \o namespace \o <<ServiceAccountUsernameSeparator>> \o name

\* A MatchesUsername that skips a character after the namespace without
\* looking at it.
MatchesUsernameAnySeparator(namespace, name, username) ==
    LET afterPrefix    == TrimPrefix(username, ServiceAccountUsernamePrefix)
        afterNamespace == TrimPrefix(afterPrefix, namespace)
    IN /\ IsPrefix(ServiceAccountUsernamePrefix, username)
       /\ IsPrefix(namespace, afterPrefix)
       /\ afterNamespace # <<>>
       /\ Tail(afterNamespace) = name

\* MatchesUsername: the prefix, the namespace and the separator are taken
\* off the front of the username in turn, and what is left is the name.
MatchesUsername(namespace, name, username) ==
    LET afterPrefix    == TrimPrefix(username, ServiceAccountUsernamePrefix)
        afterNamespace == TrimPrefix(afterPrefix, namespace)
        afterSeparator == TrimPrefix(afterNamespace, <<ServiceAccountUsernameSeparator>>)
    IN /\ IsPrefix(ServiceAccountUsernamePrefix, username)
       /\ IsPrefix(namespace, afterPrefix)
       /\ IsPrefix(<<ServiceAccountUsernameSeparator>>, afterNamespace)
       /\ afterSeparator = name

invalidUsernameErr == [namespace |-> <<>>, name |-> <<>>, err |-> TRUE]

\* A SplitUsername that takes the first two parts of however many.
SplitUsernameOfTwoOrMore(username) ==
    LET parts == Split(TrimPrefix(username, ServiceAccountUsernamePrefix),
                       ServiceAccountUsernameSeparator)
    IN IF /\ IsPrefix(ServiceAccountUsernamePrefix, username)
          /\ Len(parts) >= 2
          /\ IsNamespaceName(parts[1])
          /\ IsServiceAccountName(parts[2])
       THEN [namespace |-> parts[1], name |-> parts[2], err |-> FALSE]
       ELSE invalidUsernameErr

\* SplitUsername: the namespace and the name of a username with the
\* prefix and exactly two parts, the first a namespace name and the second
\* a service account name; the error for any other.
SplitUsername(username) ==
    LET parts == Split(TrimPrefix(username, ServiceAccountUsernamePrefix),
                       ServiceAccountUsernameSeparator)
    IN IF /\ IsPrefix(ServiceAccountUsernamePrefix, username)
          /\ Len(parts) = 2
          /\ IsNamespaceName(parts[1])
          /\ IsServiceAccountName(parts[2])
       THEN [namespace |-> parts[1], name |-> parts[2], err |-> FALSE]
       ELSE invalidUsernameErr

MakeNamespaceGroupName(namespace) == ServiceAccountGroupPrefix \o namespace

MakeGroupNames(namespace) == <<AllServiceAccountsGroup, MakeNamespaceGroupName(namespace)>>

\* A UserInfo that fills Extra when either of the two is known.
HasPodOrUID(sa) == sa.PodName # "" \/ sa.PodUID # ""

\* sa.PodName != "" && sa.PodUID != ""
HasPod(sa) == sa.PodName # "" /\ sa.PodUID # ""

\* (*ServiceAccountInfo).UserInfo
InfoOf(sa) ==
    [Name   |-> MakeUsername(sa.Namespace, sa.Name),
     UID    |-> sa.UID,
     Groups |-> MakeGroupNames(sa.Namespace),
     Extra  |-> IF HasPod(sa) THEN [PodNameKey |-> sa.PodName, PodUIDKey |-> sa.PodUID]
                ELSE NIL]

\* UserInfo(namespace, name, uid)
UserInfo(namespace, name, uid) ==
    InfoOf([Name |-> name, Namespace |-> namespace, UID |-> uid,
            PodName |-> "", PodUID |-> ""])

\* IsServiceAccountToken: the secret is of the token type, carries the
\* name of the account, and the UID of the account if it carries one.
IsServiceAccountToken(secret, sa) ==
    /\ secret.Type = SecretTypeServiceAccountToken
    /\ secret.name = sa.Name
    /\ ~(secret.uid # "" /\ secret.uid # sa.UID)

-----------------------------------------------------------------------------
(* The caller: one call at a time, any call with any arguments.            *)

DefaultInfo ==
    [Name : Seq(Chars \cup {"system", "serviceaccount"}), UID : UIDs,
     Groups : Seq(Seq(Chars \cup {"system", "serviceaccounts"})),
     Extra : {NIL} \cup [PodNameKey : PodNames \ {""}, PodUIDKey : UIDs \ {""}]]

TypeOK ==
    /\ call.op \in {"none", "MatchesUsername", "SplitUsername", "UserInfo",
                    "ServiceAccountInfo.UserInfo", "IsServiceAccountToken"}
    /\ call.op \in {"MatchesUsername", "IsServiceAccountToken"} => result \in BOOLEAN
    /\ call.op = "SplitUsername" => result \in [namespace : Seq(Chars), name : Seq(Chars), err : BOOLEAN]
    /\ call.op \in {"UserInfo", "ServiceAccountInfo.UserInfo"} =>
          /\ result \in DefaultInfo
          /\ Len(result.Groups) = 2

Idle == [op |-> "none"]

Init == call = Idle /\ result = NIL

CallMatchesUsername(namespace, name, username) ==
    /\ call' = [op |-> "MatchesUsername", namespace |-> namespace, name |-> name,
                username |-> username]
    /\ result' = MatchesUsername(namespace, name, username)

CallSplitUsername(username) ==
    /\ call' = [op |-> "SplitUsername", username |-> username]
    /\ result' = SplitUsername(username)

CallUserInfo(namespace, name, uid) ==
    /\ call' = [op |-> "UserInfo", namespace |-> namespace, name |-> name]
    /\ result' = UserInfo(namespace, name, uid)

CallInfoOf(sa) ==
    /\ call' = [op |-> "ServiceAccountInfo.UserInfo", namespace |-> sa.Namespace,
                name |-> sa.Name]
    /\ result' = InfoOf(sa)

CallIsServiceAccountToken(secret, sa) ==
    /\ call' = [op |-> "IsServiceAccountToken", secret |-> secret, sa |-> sa]
    /\ result' = IsServiceAccountToken(secret, sa)

\* The caller has used the result.
Return ==
    /\ call # Idle
    /\ call' = Idle
    /\ result' = NIL

\* Any call, with any arguments.
Call ==
    \/ \E namespace, name \in Names, username \in Usernames :
          CallMatchesUsername(namespace, name, username)
    \/ \E username \in Usernames : CallSplitUsername(username)
    \/ \E namespace, name \in Names, uid \in UIDs : CallUserInfo(namespace, name, uid)
    \/ \E sa \in ServiceAccountInfo : CallInfoOf(sa)
    \/ \E secret \in Secret, sa \in Account : CallIsServiceAccountToken(secret, sa)

Next == Return \/ (call = Idle /\ Call)

Spec == Init /\ [][Next]_vars

-----------------------------------------------------------------------------
(* Properties.                                                             *)

\* MatchesUsername is the comparison it saves the allocation of: it
\* answers true for exactly the username MakeUsername makes of the
\* namespace and the name, whatever the three strings are (empty, with
\* separators in them, one a prefix of the other).
MatchesUsernameIsMakeUsername ==
    call.op = "MatchesUsername" =>
        (result <=> call.username = MakeUsername(call.namespace, call.name))

\* SplitUsername inverts MakeUsername and nothing else ("an error if the
\* username is not a valid name produced by MakeUsername"): what it
\* returns without an error makes the username it was given; and the
\* username of the user.Info of a service account with a valid namespace
\* and name splits into the two ("The resulting username can be passed to
\* SplitUsername to extract the original namespace and ServiceAccount
\* name"), with the group of that namespace beside it.
SplitUsernameInvertsMakeUsername ==
    /\ call.op = "SplitUsername" /\ ~result.err =>
          /\ MakeUsername(result.namespace, result.name) = call.username
          /\ IsNamespaceName(result.namespace)
          /\ IsServiceAccountName(result.name)
    /\ /\ call.op \in {"UserInfo", "ServiceAccountInfo.UserInfo"}
       /\ IsNamespaceName(call.namespace)
       /\ IsServiceAccountName(call.name)
       => /\ SplitUsername(result.Name) =
                [namespace |-> call.namespace, name |-> call.name, err |-> FALSE]
          /\ result.Groups[2] = MakeNamespaceGroupName(call.namespace)
=============================================================================
