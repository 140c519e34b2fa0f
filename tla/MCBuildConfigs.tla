---------------------------- MODULE MCBuildConfigs ----------------------------
(* Instances of BuildConfigs: the lists of BuildConfigs a namespace holds, made  *)
(* so that every strategy, image reference, source and output occurs.            *)
EXTENDS BuildConfigs

NoImage == [kind |-> "", ref |-> "r", namespaced |-> FALSE]
Image(kind, ref) == [kind |-> kind, ref |-> ref, namespaced |-> TRUE]
NoFrom == [kind |-> "", ref |-> "r"]
FromOf(kind, ref) == [kind |-> kind, ref |-> ref]

Src(kinds, plain, image, context) ==
  [kinds |-> kinds, plain |-> plain, image |-> image, secret |-> context,
   contextDir |-> context, proxy |-> context]
Out(kind, namespace, tag) == [kind |-> kind, to |-> "app", namespace |-> namespace, tag |-> tag]

BC(name, strategy, from, pull, account, fields, src, out) ==
  [name |-> name, strategy |-> strategy, from |-> from, pullSecret |-> pull,
   account |-> account, fields |-> fields, env |-> fields # {}, source |-> src,
   output |-> out, push |-> IF fields = {} THEN NoSecret ELSE "push"]

Git    == Src({"git"}, TRUE, NoImage, TRUE)
GitTop == Src({"git"}, TRUE, NoImage, FALSE)

\* Two BuildConfigs of different strategies over one tag, sharing an account or not.
SharedPair(account) ==
  << BC("a", "Docker", FromOf("ImageStreamTag", "t"), "s1", account,
        {"noCache", "forcePull", "buildArgs", "incremental"}, Git, Out("ImageStreamTag", "", "")),
     BC("b", "Source", FromOf("ImageStreamTag", "t"), "s2", account,
        {"forcePull", "scripts"}, GitTop, Out("DockerImage", "", "")) >>

\* The shapes of a source, and those of a base image and an output.
SourceShapes ==
  << Src({"git", "binary"}, TRUE, NoImage, TRUE), Src({}, TRUE, NoImage, FALSE),
     Src({"image"}, FALSE, Image("DockerImage", "r"), FALSE),
     Src({"image"}, TRUE, Image("DockerImage", "r"), TRUE),
     Src({"image"}, TRUE, Image("ImageStreamTag", "t"), FALSE),
     Src({"image"}, TRUE, [Image("ImageStreamTag", "t") EXCEPT !.namespaced = FALSE], TRUE),
     Src({"image"}, TRUE, Image("ImageStreamImage", "r"), FALSE),
     Src({"image"}, TRUE, Image("Other", "r"), FALSE) >>
BaseShapes == << "", "ImageStreamImage", "DockerImage", "Other" >>

FromSource(i) == BC("b", "Source", NoFrom, NoSecret, "", {"incremental"}, SourceShapes[i],
                    Out("DockerImage", "", ""))
FromBase(i) == BC("a", "Docker", FromOf(BaseShapes[(i % 4) + 1], "r"), NoSecret, "",
                  {"dockerfilePath", "skipLayers"}, Src({"binary"}, i > 4, NoImage, TRUE),
                  Out(IF i = 5 THEN "none" ELSE "ImageStreamTag", "other", "v1"))
OfNoStrategy == BC("c", "Custom", NoFrom, "s2", "", {"forcePull"}, GitTop, Out("DockerImage", "", ""))

MCLists ==
  {<<>>, SharedPair(""), SharedPair("builder"), <<OfNoStrategy, SharedPair("")[2]>>}
  \cup {<<FromSource(i), FromBase(i)>> : i \in DOMAIN SourceShapes}
===============================================================================
