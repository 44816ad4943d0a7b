SPECIFICATION ProfilesSpec
CONSTANTS
  Default <- MCDefault
  Name <- MCName
  Setting <- MCSetting
INVARIANTS ListStored ScreenAgreesWithBoot
PROPERTY FreshProfile
