SPECIFICATION FairSpec
CONSTANT MaxNotes = 3
PROPERTIES EchoHarmless SwitchComesBack StateShown
