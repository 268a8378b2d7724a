--------------------------- MODULE FeatureMapping ---------------------------
(***************************************************************************)
(* The feature registry, src/src/featuremapping/feature_mapping.c.        *)
(* get_feature_mapping parses ops_featuremapping.yaml once, while the     *)
(* static feature_head is NULL, into a linked list of struct feature      *)
(* nodes, each owning a chain of struct daemon nodes.                      *)
(*                                                                         *)
(* The heap is modelled: feats and dnodes are the allocated nodes (node i *)
(* is the i-th calloc), their next and p_daemon fields are node numbers,  *)
(* NULL is 0.  The YAML file is the sequence of scalar events libyaml     *)
(* delivers for it (non-scalar events leave the parser's state alone);    *)
(* a malformed file makes yaml_parser_parse fail at a fixed event.  The   *)
(* CLI is single-threaded, so one call of get_feature_mapping, the whole  *)
(* parse included, is one step.                                            *)
(***************************************************************************)
EXTENDS Naturals, Sequences, SequencesExt, SupportabilityUtils

CONSTANTS
    FeatureNames,   \* feature_name values, each shorter than FEATURE_SIZE
    DaemonNames,    \* daemon name values, each shorter than FEATURE_SIZE
    MaxFeatures,    \* features per configuration file
    MaxDaemons,     \* daemons per feature
    MaxCalls,       \* get_feature_mapping calls made by CLI commands
    FlagValues      \* diag_dump values a file may give ("none": absent)

NULL == 0           \* a NULL node pointer

\* keystr_feat (lines 54-61); the enum of feature_mapping.h.
keystr_feat == [VALUE |-> "values", FEATURE_NAME |-> "feature_name",
                FEATURE_DESC |-> "feature_desc", DAEMON |-> "daemon",
                DAEMON_NAME |-> "name", DIAGDUMP_FLAG |-> "diag_dump"]
KeyStates == DOMAIN keystr_feat \ {"VALUE"}

\* The configuration a file states: features in file order, each with its
\* daemons in file order and the daemon's diag_dump value ("none": the
\* key is absent).
DaemonEntries ==
    UNION {[1..n -> DaemonNames \X FlagValues] : n \in 1..MaxDaemons}
Configs ==
    { c \in UNION {[1..n -> FeatureNames \X DaemonEntries] :
                       n \in 1..MaxFeatures} :
        /\ IsInjective([i \in DOMAIN c |-> c[i][1]])
        /\ \A i \in DOMAIN c : IsInjective([j \in DOMAIN c[i][2] |->
                                                c[i][2][j][1]]) }

\* The scalar events of the YAML text of a configuration:
\*   values: - feature_name: F  feature_desc: D  daemon: - name: N
\*                                                        diag_dump: y
DaemonScalars(e) ==
    <<"name", e[1]>> \o (IF e[2] = "none" THEN <<>> ELSE <<"diag_dump", e[2]>>)
FeatureScalars(f) ==
    <<"feature_name", f[1], "feature_desc", "desc", "daemon">>
        \o FlattenSeq([j \in DOMAIN f[2] |-> DaemonScalars(f[2][j])])
Scalars(c) ==
    <<"values">> \o FlattenSeq([i \in DOMAIN c |-> FeatureScalars(c[i])])

VARIABLES
    config,         \* what the file says
    errAt,          \* 0, or the event at which yaml_parser_parse fails
    feature_head,   \* static struct feature* feature_head
    feats,          \* allocated struct feature nodes
    dnodes,         \* allocated struct daemon nodes
    returned,       \* what the last get_feature_mapping call returned
    lastRc,         \* return value of the last parse_feature_mapping_yaml
    calls,
    listOut         \* what the last "diag-dump list" returned and printed

vars == <<config, errAt, feature_head, feats, dnodes, returned, lastRc, calls,
          listOut>>

-----------------------------------------------------------------------------
(* parse_feature_mapping_yaml, one scalar event at a time.  The parser's  *)
(* locals and the heap are one record p.                                   *)

\* feature_mapping_check_key (lines 169-180): the search starts at
\* FEATURE_NAME, so "values" and every non-keyword is a VALUE.
feature_mapping_check_key(data) ==
    IF \E k \in KeyStates : strcmp_with_nullcheck(keystr_feat[k], data) = 0
    THEN CHOOSE k \in KeyStates : strcmp_with_nullcheck(keystr_feat[k], data) = 0
    ELSE "VALUE"

\* feature_mapping_add_feature (lines 79-97): calloc a node (flag DISABLE,
\* no daemons) and link it after afternode.
feature_mapping_add_feature(p, afternode, name) ==
    LET id   == Len(p.feats) + 1
        node == [name |-> name, desc |-> NULLSTR, p_daemon |-> NULL,
                 diag_flag |-> "DISABLE",
                 next |-> IF afternode # NULL THEN p.feats[afternode].next
                                              ELSE NULL]
        linked == IF afternode # NULL
                  THEN [p.feats EXCEPT ![afternode].next = id] ELSE p.feats
    IN [p EXCEPT !.feats = Append(linked, node)]

\* feature_mapping_add_daemon (lines 137-159).
feature_mapping_add_daemon(p, afternode, name) ==
    LET id   == Len(p.dnodes) + 1
        node == [name |-> name, diag_flag |-> "DISABLE",
                 next |-> IF afternode # NULL THEN p.dnodes[afternode].next
                                              ELSE NULL]
        linked == IF afternode # NULL
                  THEN [p.dnodes EXCEPT ![afternode].next = id] ELSE p.dnodes
    IN [p EXCEPT !.dnodes = Append(linked, node)]

\* Bug variant: curr_daemon is not reset when a new feature starts.
NewFeatureKeepDaemon(p, v) ==
    LET q == feature_mapping_add_feature(p, p.curr_feature, v)
        id == Len(q.feats)
    IN [q EXCEPT !.curr_feature = id, !.head = IF @ = NULL THEN id ELSE @]

\* case FEATURE_NAME (lines 241-253).
NewFeature(p, v) ==
    LET q == feature_mapping_add_feature(p, p.curr_feature, v)
        id == Len(q.feats)
    IN [q EXCEPT !.curr_daemon = NULL, !.curr_feature = id,
                 !.head = IF @ = NULL THEN id ELSE @]

\* case FEATURE_DESC (lines 254-261), feature_mapping_add_feature_desc
\* (lines 111-126).
SetDesc(p, v) ==
    IF p.curr_feature = NULL THEN p
    ELSE [p EXCEPT !.feats[p.curr_feature].desc = v]

\* case DAEMON_NAME (lines 262-274).
NewDaemon(p, v) ==
    LET q  == feature_mapping_add_daemon(p, p.curr_daemon, v)
        id == Len(q.dnodes)
        f  == q.curr_feature
    IN [q EXCEPT !.curr_daemon = id,
                 !.feats = IF f # NULL /\ @[f].p_daemon = NULL
                           THEN [@ EXCEPT ![f].p_daemon = id] ELSE @]

\* Bug variant: the flag is stored without the "y" comparison.
SetFlagRaw(p, v) ==
    [p EXCEPT !.dnodes = IF p.curr_daemon # NULL
                         THEN [@ EXCEPT ![p.curr_daemon].diag_flag = v]
                         ELSE @,
              !.feats  = IF p.curr_feature # NULL
                         THEN [@ EXCEPT ![p.curr_feature].diag_flag = v]
                         ELSE @]

\* case DIAGDUMP_FLAG (lines 277-291): "y" is ENABLE, anything else
\* DISABLE; the daemon's flag and the feature's flag are both overwritten.
SetFlag(p, v) ==
    LET flag == IF strcmp_with_nullcheck(v, "y") = 0 THEN "ENABLE"
                                                     ELSE "DISABLE"
    IN [p EXCEPT !.dnodes = IF p.curr_daemon # NULL
                            THEN [@ EXCEPT ![p.curr_daemon].diag_flag = flag]
                            ELSE @,
                 !.feats  = IF p.curr_feature # NULL
                            THEN [@ EXCEPT ![p.curr_feature].diag_flag = flag]
                            ELSE @]

\* The body of the event loop for one event (lines 233-309): a keyword
\* sets current_state, a value is applied according to it.
ParseScalar(p, v) ==
    LET k == feature_mapping_check_key(v) IN
    IF k # "VALUE" THEN [p EXCEPT !.current_state = k]
    ELSE CASE p.current_state = "FEATURE_NAME"  -> NewFeature(p, v)
           [] p.current_state = "FEATURE_DESC"  -> SetDesc(p, v)
           [] p.current_state = "DAEMON_NAME"   -> NewDaemon(p, v)
           [] p.current_state = "DIAGDUMP_FLAG" -> SetFlag(p, v)
           [] OTHER                             -> p

\* parse_feature_mapping_yaml (lines 190-328) on a file that opens: the
\* events before the failing one are applied, then it returns 1; a file
\* that parses to the end returns 0.  The list built so far stays.
parse_feature_mapping_yaml(head, fs, ds) ==
    LET ev   == Scalars(config)
        upto == IF errAt = 0 THEN ev ELSE SubSeq(ev, 1, errAt - 1)
        p0   == [current_state |-> "VALUE", curr_feature |-> NULL,
                 curr_daemon |-> NULL, head |-> head, feats |-> fs,
                 dnodes |-> ds]
    IN [p |-> FoldLeft(ParseScalar, p0, upto),
        rc |-> IF errAt = 0 THEN 0 ELSE 1]

\* The list is parsed only while it is empty (line 340).
NeedsParse == feature_head = NULL

\* get_feature_mapping (lines 338-346).  The parse result is ignored.
\* fopen or yaml_parser_initialize may fail (lines 210-219): rc 1, nothing
\* parsed.
get_feature_mapping ==
    /\ calls < MaxCalls
    /\ calls' = calls + 1
    /\ IF NeedsParse
       THEN \E opened \in BOOLEAN :
              LET r == parse_feature_mapping_yaml(feature_head, feats, dnodes)
              IN IF opened
                 THEN /\ feature_head' = r.p.head /\ returned' = r.p.head
                      /\ feats' = r.p.feats /\ dnodes' = r.p.dnodes
                      /\ lastRc' = r.rc
                 ELSE /\ returned' = NULL /\ lastRc' = 1
                      /\ UNCHANGED <<feature_head, feats, dnodes>>
       ELSE /\ returned' = feature_head
            /\ UNCHANGED <<feature_head, feats, dnodes, lastRc>>
    /\ UNCHANGED <<config, errAt>>

-----------------------------------------------------------------------------
(* A client of the registry: "diag-dump list" (diag_dump_vty.c).          *)

RECURSIVE FeatureChain(_, _)
FeatureChain(id, n) ==
    IF id = NULL \/ n = 0 THEN <<>>
    ELSE <<id>> \o FeatureChain(feats[id].next, n - 1)

\* Bug variant: DISABLE features are not skipped.
vtysh_diag_list_features_no_skip(head) ==
    [i \in DOMAIN FeatureChain(head, Len(feats)) |->
        feats[FeatureChain(head, Len(feats))[i]].name]

\* vtysh_diag_list_features (lines 351-371): the names of the features of
\* the list at head, in list order, skipping those flagged DISABLE.
vtysh_diag_list_features(head) ==
    LET shown == SelectSeq(FeatureChain(head, Len(feats)),
                           LAMBDA f : feats[f].diag_flag # "DISABLE")
    IN [i \in DOMAIN shown |-> feats[shown[i]].name]

\* vtysh_diag_dump_list_show (lines 478-493).
vtysh_diag_dump_list_show ==
    /\ get_feature_mapping
    /\ listOut' = IF returned' = NULL
                  THEN [ret |-> "CMD_WARNING", names |-> <<>>]
                  ELSE [ret |-> "CMD_SUCCESS",
                        names |-> (vtysh_diag_list_features(returned))']

\* Any other command asking for the table (diag-dump, the OSPF commands).
FeatureLookup == get_feature_mapping /\ UNCHANGED listOut

Done ==
    /\ calls = MaxCalls
    /\ UNCHANGED vars

Init ==
    /\ config \in Configs
    /\ errAt \in 0..Len(Scalars(config))
    /\ feature_head = NULL
    /\ feats = <<>>
    /\ dnodes = <<>>
    /\ returned = NULL
    /\ lastRc = 0
    /\ calls = 0
    /\ listOut = [ret |-> "none", names |-> <<>>]

Next == FeatureLookup \/ vtysh_diag_dump_list_show \/ Done

Spec == Init /\ [][Next]_vars

-----------------------------------------------------------------------------
(* Reading the list as its users do (for (iter = head; iter; iter = next))*)

RECURSIVE DaemonChain(_, _)
DaemonChain(id, n) ==
    IF id = NULL \/ n = 0 THEN <<>>
    ELSE <<id>> \o DaemonChain(dnodes[id].next, n - 1)

\* The daemons of feature node f, as node numbers.
DaemonsOf(f) == DaemonChain(feats[f].p_daemon, Len(dnodes))

\* The table the list at head stands for, in the shape of a configuration.
Table(head) ==
    LET fs == FeatureChain(head, Len(feats)) IN
    [i \in DOMAIN fs |->
        <<feats[fs[i]].name, feats[fs[i]].desc,
          [j \in DOMAIN DaemonsOf(fs[i]) |->
              <<dnodes[DaemonsOf(fs[i])[j]].name,
                dnodes[DaemonsOf(fs[i])[j]].diag_flag>>]>>]

\* The reference: the table a configuration describes (spec 4.1): a
\* daemon is enabled iff its diag_dump value is "y".
FlagOf(v) == IF v = "y" THEN "ENABLE" ELSE "DISABLE"
ConfigTable(c) ==
    [i \in DOMAIN c |->
        <<c[i][1], "desc", [j \in DOMAIN c[i][2] |->
                        <<c[i][2][j][1], FlagOf(c[i][2][j][2])>>]>>]

\* The table a parse of c stopped part-way may leave: a prefix of the
\* features, all but the last complete; the last may lack its
\* description and some daemons, and its last daemon its flag.
DaemonNamesOf(ds) == [j \in DOMAIN ds |-> ds[j][1]]
IsPartialTable(t, c) ==
    LET ct == ConfigTable(c) IN
    /\ Len(t) <= Len(ct)
    /\ \A i \in 1..Len(t) - 1 : t[i] = ct[i]
    /\ \A i \in DOMAIN t :
          LET ds == t[i][3]  cs == ct[i][3] IN
          /\ t[i][1] = ct[i][1]
          /\ t[i][2] \in {ct[i][2], NULLSTR}
          /\ IsPrefix(DaemonNamesOf(ds), DaemonNamesOf(cs))
          /\ \A j \in 1..Len(ds) - 1 : ds[j] = cs[j]
          /\ ds # <<>> => ds[Len(ds)][2] \in {cs[Len(ds)][2], "DISABLE"}
-----------------------------------------------------------------------------
(* Properties.                                                             *)

Flags == {"ENABLE", "DISABLE"}
TypeOK ==
    /\ config \in Configs
    /\ errAt \in 0..Len(Scalars(config))
    /\ feature_head \in 0..Len(feats)
    /\ feats \in Seq([name : FeatureNames, desc : {NULLSTR, "desc"},
                      p_daemon : 0..Len(dnodes), diag_flag : Flags,
                      next : 0..Len(feats)])
    /\ dnodes \in Seq([name : DaemonNames, diag_flag : Flags,
                       next : 0..Len(dnodes)])
    /\ returned \in 0..Len(feats)
    /\ lastRc \in {0, 1}
    /\ calls \in 0..MaxCalls
    /\ listOut \in [ret : {"none", "CMD_SUCCESS", "CMD_WARNING"},
                     names : Seq(FeatureNames)]

\* A file that parses to the end gives the table it states: every feature
\* in file order with its description, and under each feature exactly its
\* own daemons, in file order, with their diag_dump flags.  The chains are
\* built by inserting after curr_feature and curr_daemon, which must be
\* reset between features for the daemon chains to stay apart.  A parse
\* that fails part-way returns 1 but keeps its list, and
\* get_feature_mapping serves that list from then on (lines 340-344): it must
\* be a prefix of the file's table, with no daemon under another feature
\* and none enabled that the file does not enable.
ParsedTableMatchesConfig ==
    feature_head # NULL =>
        IF lastRc = 0 THEN Table(feature_head) = ConfigTable(config)
                      ELSE IsPartialTable(Table(feature_head), config)

\* "diag-dump list" shows only features that diag-dump would dispatch a
\* daemon of: every listed feature has an enabled daemon.  The list skips
\* a feature on its own diag_flag, which the parser overwrites with each
\* daemon's flag in turn, also when the file is cut short by a parse
\* error; the table is never rebuilt once served.
ListedFeaturesHaveEnabledDaemon ==
    listOut.ret = "CMD_SUCCESS" =>
        \A i \in DOMAIN listOut.names :
            \E f \in Range(FeatureChain(feature_head, Len(feats))) :
                /\ feats[f].name = listOut.names[i]
                /\ \E d \in Range(DaemonsOf(f)) : dnodes[d].diag_flag = "ENABLE"

====
