------------------------------ MODULE Profiles ------------------------------
(***************************************************************************)
(* ProfileManager, Profile and the operations of ProfileFragment on them    *)
(* (groovy/net/typeblog/socks): the list of profiles and their settings.    *)
(*                                                                         *)
(* All of it runs on the main thread of the UI process.  The shared         *)
(* preferences outlive the process, the singleton's list mProfiles and the  *)
(* fragment's mProfile do not; every commit() is synchronous.               *)
(*                                                                         *)
(* A string is a sequence of characters.  A setting is a single character   *)
(* at the end of its key, with two values: the default one, read when the   *)
(* key is absent, and another.                                              *)
(***************************************************************************)
EXTENDS Naturals, Sequences, SequencesExt

CONSTANTS Default,   \* R.string.prof_default
          Name,      \* names the user may enter: trimmed, one line, not empty
          Setting    \* the settings of a profile

ASSUME ProfilesAssumption ==
  /\ Default \notin Name
  /\ \A n \in Name \cup {Default} :
       /\ n \in Seq(Range(n)) /\ n # <<>> /\ "\n" \notin Range(n)
       /\ n[1] # " " /\ Last(n) # " "

VARIABLES mPrefProfile,  \* PREF_PROFILE: the names, joined by newlines
          mPrefLast,     \* PREF_LAST_PROFILE, <<>> when absent
          mPrefKeys,     \* keys of settings with a value other than the default
          mProfiles,     \* ProfileManager.mProfiles
          mProfile       \* the name of ProfileFragment.mProfile, <<>> for null

profilesVars ==
  <<mPrefProfile, mPrefLast, mPrefKeys, mProfiles, mProfile>>

-----------------------------------------------------------------------------
(* Profile                                                                 *)

escape(c) == CASE c = "_" -> <<"_", "_">> [] c = " " -> <<"_">> [] OTHER -> <<c>>

(* prefPrefix: "_" becomes "__", then " " becomes "_".                      *)
prefPrefix(name) ==
  LET prefix[i \in 0 .. Len(name)] ==
        IF i = 0 THEN <<>> ELSE prefix[i - 1] \o escape(name[i])
  IN  prefix[Len(name)]

key(name, k) == prefPrefix(name) \o <<k>>

(* The settings that getters of profile name do not read as the default.    *)
Customised(name, keys) == {k \in Setting : key(name, k) \in keys}

(* The settings whose keys delete() removes.                                *)
Deleted == {"server", "port", "userpw", "username", "password", "route", "dns",
            "dns_port", "perapp", "appbypass", "applist", "ipv6", "udp", "udpgw", "auto"}

(* Mutant of delete: the server is forgotten.                                *)
Mut_delete_forgets(name, keys) == keys \ {key(name, k) : k \in Deleted \ {"server"}}

delete(name, keys) == keys \ {key(name, k) : k \in Deleted}

-----------------------------------------------------------------------------
(* ProfileManager                                                          *)

join(names) ==
  LET text[i \in 0 .. Len(names)] ==
        IF i = 0 THEN <<>>
        ELSE IF i = 1 THEN names[1]
        ELSE text[i - 1] \o (<<"\n">> \o names[i])
  IN  text[Len(names)]

split(text) ==
  LET lines[i \in 0 .. Len(text)] ==
        IF i = 0 THEN << <<>> >>
        ELSE LET l == lines[i - 1]
             IN  IF text[i] = "\n" THEN Append(l, <<>>)
                 ELSE [l EXCEPT ![Len(l)] = Append(l[Len(l)], text[i])]
  IN  lines[Len(text)]

(* The default profile, then the lines that are not empty.                  *)
listed(lines) ==
  LET list[i \in 0 .. Len(lines)] ==
        IF i = 0 THEN <<Default>>
        ELSE IF lines[i] = <<>> THEN list[i - 1]
        ELSE Append(list[i - 1], lines[i])
  IN  list[Len(lines)]

(* reload: the list that the stored text stands for.                        *)
reload(text) == listed(split(text))

getProfile(profiles, name) == IF name \in Range(profiles) THEN name ELSE <<>>

getDefault(profiles, last) ==
  getProfile(profiles, IF last = <<>> THEN profiles[1] ELSE last)

-----------------------------------------------------------------------------
ProfilesTypeOK ==
  /\ \A n \in Range(split(mPrefProfile)) : n \in Name \cup {<<>>}
  /\ mPrefLast \in Name \cup {Default, <<>>}
  /\ mPrefKeys \subseteq {key(n, k) : n \in Name \cup {Default}, k \in Setting}
  /\ Range(mProfiles) \subseteq Name \cup {Default}
  /\ mProfile \in Name \cup {Default}

(* First start of the application.                                          *)
ProfilesInit ==
  /\ mPrefProfile = <<>> /\ mPrefLast = <<>> /\ mPrefKeys = {}
  /\ mProfiles = reload(<<>>)
  /\ mProfile = getDefault(mProfiles, mPrefLast)

(* A new process, for the activity or for the BootReceiver: the singleton   *)
(* is built from the preferences, and getDefault is asked for the profile.  *)
Restart(text, last) ==
  /\ mProfiles' = reload(text)
  /\ mProfile' = getDefault(mProfiles', last)

ProcessRestarts ==
  /\ Restart(mPrefProfile, mPrefLast)
  /\ UNCHANGED <<mPrefProfile, mPrefLast, mPrefKeys>>

(* The activity is recreated (rotation): the singleton stays.               *)
onCreate ==
  /\ mProfile' = getDefault(mProfiles, mPrefLast)
  /\ UNCHANGED <<mPrefProfile, mPrefLast, mPrefKeys, mProfiles>>

(* Mutant of switchProfile: the default is not switched.                     *)
Mut_switch_not_stored(name) ==
  /\ name \in Range(mProfiles)
  /\ mProfile' = getProfile(mProfiles, name)
  /\ UNCHANGED <<mPrefProfile, mPrefLast, mPrefKeys, mProfiles>>

(* prefChange of mPrefProfile, with getProfile and switchDefault.           *)
switchProfile(name) ==
  /\ name \in Range(mProfiles)
  /\ mProfile' = getProfile(mProfiles, name)
  /\ mPrefLast' = name
  /\ UNCHANGED <<mPrefProfile, mPrefKeys, mProfiles>>

(* prefChange of any other preference: a setter of Profile.                 *)
setSetting(k) ==
  /\ \/ mPrefKeys' = mPrefKeys \cup {key(mProfile, k)}
     \/ mPrefKeys' = mPrefKeys \ {key(mProfile, k)}
  /\ UNCHANGED <<mPrefProfile, mPrefLast, mProfiles, mProfile>>

(* Mutant of addProfile: the default profile's name is stored too.           *)
Mut_add_stores_default(name) ==
  /\ name \notin Range(mProfiles)
  /\ mPrefProfile' = join(Append(mProfiles, name))
  /\ mPrefLast' = name
  /\ Restart(mPrefProfile', mPrefLast')
  /\ UNCHANGED mPrefKeys

(* addProfile of the dialog and the manager; a known name changes nothing.  *)
addProfile(name) ==
  /\ name \notin Range(mProfiles)
  /\ mPrefProfile' = join(Tail(Append(mProfiles, name)))
  /\ mPrefLast' = name
  /\ mProfiles' = reload(mPrefProfile')
  /\ mProfile' = getDefault(mProfiles', mPrefLast')
  /\ UNCHANGED mPrefKeys

(* removeProfile of the dialog and the manager: refused for the first       *)
(* profile.  The settings and the list are two commits.                     *)
removeProfile ==
  /\ mProfile # mProfiles[1] /\ mProfile \in Range(mProfiles)
  /\ mPrefKeys' = delete(mProfile, mPrefKeys)
  /\ mPrefProfile' = join(RemoveFirst(Tail(mProfiles), mProfile))
  /\ mPrefLast' = <<>>
  /\ mProfiles' = reload(mPrefProfile')
  /\ mProfile' = getDefault(mProfiles', mPrefLast')

(* The process ends between the two commits, and starts again.              *)
removeProfileInterrupted ==
  /\ mProfile # mProfiles[1] /\ mProfile \in Range(mProfiles)
  /\ mPrefKeys' = delete(mProfile, mPrefKeys)
  /\ Restart(mPrefProfile, mPrefLast)
  /\ UNCHANGED <<mPrefProfile, mPrefLast>>

ProfilesNext ==
  \/ ProcessRestarts \/ onCreate
  \/ removeProfile \/ removeProfileInterrupted
  \/ \E k \in Setting : setSetting(k)
  \/ \E n \in Name : addProfile(n)
  \/ \E n \in Name \cup {Default} : switchProfile(n)

ProfilesSpec == ProfilesInit /\ [][ProfilesNext]_profilesVars

-----------------------------------------------------------------------------
(* A stored setting that delete() removes is of a profile in the list, by    *)
(* its prefix.                                                               *)
SettingsOwned ==
  \A n \in Name \cup {Default} :
    Customised(n, mPrefKeys) \cap Deleted # {} =>
      \E m \in Range(mProfiles) : prefPrefix(m) = prefPrefix(n)

(* The list in memory is the one the preferences hold, begins with the       *)
(* default profile and has no name twice, so a restart changes nothing and   *)
(* removeProfile removes the profile the user meant; the settings stored are *)
(* of its profiles.                                                          *)
ListStored ==
  /\ ProfilesTypeOK
  /\ mProfiles = reload(mPrefProfile)
  /\ mPrefProfile = join(Tail(mProfiles))
  /\ mProfiles[1] = Default
  /\ IsInjective(mProfiles)
  /\ SettingsOwned

(* The profile on the screen exists, and is the one that a restart, a        *)
(* rotation or the BootReceiver would choose: getDefault is never null.      *)
ScreenAgreesWithBoot ==
  /\ mProfile \in Range(mProfiles)
  /\ mProfile = getDefault(reload(mPrefProfile), mPrefLast)

(* A profile that is added starts with the default value of every setting    *)
(* that delete() removes, whatever profile had the name before, unless a     *)
(* profile in the list has the same prefix.  Settings that delete() does not *)
(* remove (zip, offset) are inherited.                                       *)
FreshProfile ==
  [][\A n \in Range(mProfiles') \ Range(mProfiles) :
       \/ Customised(n, mPrefKeys') \cap Deleted = {}
       \/ \E m \in Range(mProfiles) : prefPrefix(m) = prefPrefix(n)]_profilesVars
=============================================================================
